---- MODULE Spec2Model ----
(***************************************************************************)
(* Model of the bulk-operation engine of file-axiom:                       *)
(* performBulkOperations, findFiles and transformPath                      *)
(* (src/src/intentParser.ts, final snapshot, lines 1433-2563).             *)
(*                                                                         *)
(* Strings are sequences of one-character strings, so that endsWith,       *)
(* String.replace and the RegExp built by transformPath are computed as    *)
(* the code computes them.                                                 *)
(***************************************************************************)
EXTENDS Integers, Sequences, FiniteSets, TLC

VARIABLES
  trusted,          \* vscode.workspace.isTrusted
  hasWorkspace,     \* workspaceFolders is non-empty
  fs,               \* the disk: absolute path -> content, domain = existing files
  trash,            \* files moved to the trash by fs.delete(useTrash: true)
  actions,          \* the argument `actions`
  pc,               \* the phase the call is in (or ended in)
  idx,              \* index of the running for-loop
  expandedActions,  \* local expandedActions
  refs,             \* referenceEditsPromises: one record per promise
  refIndex,         \* local refIndex
  edit,             \* the WorkspaceEdit being built
  result,           \* local result (BulkOperationResult)
  error,            \* the error the call threw, or NoError
  outcome,          \* "pending", "returned" or "thrown"
  log,              \* capability calls issued so far, in order
  progress,         \* messages handed to progressCallback, in order
  ext,              \* number of changes made to the disk by other actors
  tpIn,             \* transformPath harness: <<filePath, sourcePattern, targetPattern>>
  tpOut,            \* transformPath harness: the value returned, or <<>> before the call
  hasCallback,      \* the argument `progressCallback` was supplied
  other,            \* the locals of a second, suspended call (NoOther if there is none)
  tool,             \* the tool adapter that made the call ("none": called directly)
  payload           \* what the tool adapter's invoke returned or threw (NoPayload before)

vars == <<trusted, hasWorkspace, fs, trash, actions, pc, idx, expandedActions,
          refs, refIndex, edit, result, error, outcome, log, progress, ext,
          tpIn, tpOut, hasCallback, other, tool, payload>>

callVars == <<trusted, hasWorkspace, fs, trash, actions, pc, idx, expandedActions,
              refs, refIndex, edit, result, error, outcome, log, progress, ext,
              hasCallback, other, tool, payload>>

\* what one step of a call does not touch: its own parameters, the other call
\* and the adapter around it
callerVars == <<hasCallback, other, tool, payload>>

-----------------------------------------------------------------------------
(* Strings *)

\* JS `undefined` (a params field that is not set, a promise result that is absent)
Undef == <<"undefined">>

\* what transformPath yields when `new RegExp(...)` throws SyntaxError
RegExpSyntaxError == <<"SyntaxError">>

\* String.prototype.endsWith
EndsWith(s, suf) ==
  /\ Len(suf) <= Len(s)
  /\ SubSeq(s, Len(s) - Len(suf) + 1, Len(s)) = suf

\* String.prototype.startsWith
StartsWith(s, pre) ==
  /\ Len(pre) <= Len(s)
  /\ SubSeq(s, 1, Len(pre)) = pre

\* String.prototype.includes for a single character
Includes(s, ch) == \E i \in 1..Len(s) : s[i] = ch

\* source.includes('*') || source.includes('?')
IsGlob(s) == Includes(s, "*") \/ Includes(s, "?")

\* number of leading characters of s, from position i on, that lie in set
RECURSIVE RunLen(_, _, _)
RunLen(s, i, set) ==
  IF i <= Len(s) /\ s[i] \in set THEN 1 + RunLen(s, i + 1, set) ELSE 0

\* length of the prefix matched by /^\*+[\\/]*\*+\./ , or 0 when it does not match
GlobPrefixLen(p) ==
  LET a == RunLen(p, 1, {"*"})
      b == RunLen(p, a + 1, {"/", "\\"})
      c == RunLen(p, a + b + 1, {"*"})
      n == a + b + c
  IN  IF b = 0
        THEN IF a >= 2 /\ a + 1 <= Len(p) /\ p[a + 1] = "." THEN a + 1 ELSE 0
        ELSE IF a >= 1 /\ c >= 1 /\ n + 1 <= Len(p) /\ p[n + 1] = "."
               THEN n + 1 ELSE 0

\* pattern.replace(/^\*+[\\/]*\*+\./, '')
StripGlobPrefix(p) == SubSeq(p, GlobPrefixLen(p) + 1, Len(p))

-----------------------------------------------------------------------------
(* new RegExp(`\\.${sourceExt}$`): an escaped dot, then sourceExt read as a  *)
(* regular expression, then the end anchor.  Over the alphabet used here    *)
(* the metacharacters are '.', '*' and '?'.                                 *)

\* atoms of the pattern; q is "one", "star" or "opt"; lazy: a '?' followed a quantifier
DotAtom == [any |-> FALSE, ch |-> ".", q |-> "one", lazy |-> FALSE]

RECURSIVE ParseRegExp(_, _, _)
ParseRegExp(pat, i, acc) ==
  IF i > Len(pat) THEN [ok |-> TRUE, atoms |-> acc]
  ELSE LET c == pat[i]
           last == acc[Len(acc)]
           setLast(r) == [acc EXCEPT ![Len(acc)] = r]
       IN  IF c = "*"
             THEN IF last.q = "one"
                    THEN ParseRegExp(pat, i + 1, setLast([last EXCEPT !.q = "star"]))
                    ELSE [ok |-> FALSE, atoms |-> acc]      \* Nothing to repeat
           ELSE IF c = "?"
             THEN IF last.q = "one"
                    THEN ParseRegExp(pat, i + 1, setLast([last EXCEPT !.q = "opt"]))
                  ELSE IF ~last.lazy
                    THEN ParseRegExp(pat, i + 1, setLast([last EXCEPT !.lazy = TRUE]))
                  ELSE [ok |-> FALSE, atoms |-> acc]        \* Nothing to repeat
           ELSE ParseRegExp(pat, i + 1,
                  Append(acc, [any |-> (c = "."), ch |-> c, q |-> "one", lazy |-> FALSE]))

AtomAccepts(atom, c) == atom.any \/ atom.ch = c

\* atoms[k..] match s[j..Len(s)] exactly (the pattern ends with $)
RECURSIVE MatchToEnd(_, _, _, _)
MatchToEnd(atoms, k, s, j) ==
  IF k > Len(atoms) THEN j > Len(s)
  ELSE LET atom == atoms[k]
           here == j <= Len(s) /\ AtomAccepts(atom, s[j])
       IN  CASE atom.q = "one"  -> here /\ MatchToEnd(atoms, k + 1, s, j + 1)
             [] atom.q = "opt"  -> \/ MatchToEnd(atoms, k + 1, s, j)
                                   \/ here /\ MatchToEnd(atoms, k + 1, s, j + 1)
             [] atom.q = "star" -> \/ MatchToEnd(atoms, k + 1, s, j)
                                   \/ here /\ MatchToEnd(atoms, k, s, j + 1)

\* filePath.replace(new RegExp(`\\.${sourceExt}$`), `.${targetExt}`):
\* the leftmost position from which the pattern matches up to the end is replaced
RegExpReplace(filePath, sourceExt, targetExt) ==
  LET re == ParseRegExp(sourceExt, 1, <<DotAtom>>)
      starts == {i \in 1..(Len(filePath) + 1) : MatchToEnd(re.atoms, 1, filePath, i)}
  IN  IF ~re.ok THEN RegExpSyntaxError
      ELSE IF starts = {} THEN filePath
      ELSE LET i == CHOOSE m \in starts : \A n \in starts : m <= n
           IN  SubSeq(filePath, 1, i - 1) \o <<".">> \o targetExt

\* transformPath(filePath, sourcePattern, targetPattern)
transformPath(filePath, sourcePattern, targetPattern) ==
  IF EndsWith(sourcePattern, <<"*">>) /\ EndsWith(targetPattern, <<"*">>)
    THEN LET sourceExt == StripGlobPrefix(sourcePattern)
             targetExt == StripGlobPrefix(targetPattern)
         IN  IF EndsWith(filePath, <<".">> \o sourceExt)
               THEN RegExpReplace(filePath, sourceExt, targetExt)
               ELSE filePath
    ELSE filePath

-----------------------------------------------------------------------------
(* Paths, the workspace and the batches the model is run on *)

js(n)   == <<n, ".", "j", "s">>
ts(n)   == <<n, ".", "t", "s">>
logf(n) == <<n, ".", "l", "o", "g">>

\* folders[0].uri
root == <<"/", "w">>

\* vscode.Uri.joinPath(root, relativePath)
JoinPath(base, rel) == base \o <<"/">> \o rel

\* vscode.workspace.asRelativePath(uri), single-folder workspace
AsRelativePath(uri) ==
  IF StartsWith(uri, root \o <<"/">>)
    THEN SubSeq(uri, Len(root) + 2, Len(uri))
    ELSE uri

\* relative paths of the files that may exist in the workspace
Files == {js("a"), js("b"), ts("a"), logf("c"), logf("d")}

\* files that are on disk in every initial state
AlwaysPresent == {js("b"), logf("d")}

\* files that other actors create or remove while a call is running
Volatile == {ts("a"), logf("d")}

\* content of a file created by another actor during the call
ExtContent == <<"external">>

\* glob patterns used by the batches
AllLogs == <<"*", ".", "l", "o", "g">>
AnyJs   == <<"*", "*", "/", "*", ".", "j", "s">>
AnyTs   == <<"*", "*", "/", "*", ".", "t", "s">>

\* BulkAction: {type, params: {source?, target?, path?}}
Delete(p)      == [type |-> "delete", source |-> Undef, target |-> Undef, path |-> p]
Op(t, src, tgt) == [type |-> t, source |-> src, target |-> tgt, path |-> Undef]

ActionPool ==
  { Delete(logf("c")),
    Delete(AllLogs),
    Op("rename", js("a"), ts("a")),
    Op("rename", js("b"), logf("c")),
    Op("move", js("b"), ts("a")),
    Op("rename", AnyJs, AnyTs),
    Op("duplicate", js("a"), ts("a")),
    Delete(Undef),
    Delete(<<>>),
    Op("archive", js("a"), ts("a")),
    Op("rename", Undef, ts("a")),
    Op("duplicate", js("a"), Undef),
    Delete(js("a")),
    Op("rename", AnyTs, AnyTs) }

\* bound: number of actions in the argument of one call
MaxActions == 2

\* bound: number of changes other actors make to the disk during one call
MaxExternal == 1

Batches == UNION {[1..n -> ActionPool] : n \in 0..MaxActions}

NoError == "none"

EmptyResult ==
  [successCount |-> 0, failedCount |-> 0, totalReferencesUpdated |-> 0,
   operations |-> <<>>]

-----------------------------------------------------------------------------
(* Injected capabilities: the disk, the search and the rename provider *)

Exists(uri) == uri \in DOMAIN fs

Remove(disk, uri) == [p \in (DOMAIN disk) \ {uri} |-> disk[p]]

Put(disk, uri, content) ==
  [p \in (DOMAIN disk) \cup {uri} |-> IF p = uri THEN content ELSE disk[p]]

\* glob semantics of vscode.workspace.findFiles: '*' and '?' stay within a
\* path segment, a leading '**/' spans any number of directories
RECURSIVE GlobMatch(_, _, _, _)
GlobMatch(pat, i, s, j) ==
  IF i > Len(pat) THEN j > Len(s)
  ELSE IF i + 2 <= Len(pat) /\ SubSeq(pat, i, i + 2) = <<"*", "*", "/">>
    THEN \/ GlobMatch(pat, i + 3, s, j)
         \/ \E k \in j..Len(s) : s[k] = "/" /\ GlobMatch(pat, i, s, k + 1)
  ELSE IF pat[i] = "*"
    THEN \/ GlobMatch(pat, i + 1, s, j)
         \/ j <= Len(s) /\ s[j] # "/" /\ GlobMatch(pat, i, s, j + 1)
  ELSE IF pat[i] = "?"
    THEN j <= Len(s) /\ s[j] # "/" /\ GlobMatch(pat, i + 1, s, j + 1)
  ELSE j <= Len(s) /\ s[j] = pat[i] /\ GlobMatch(pat, i + 1, s, j + 1)

\* the uris vscode.workspace.findFiles(pattern, ...) finds on the disk
Matches(pattern) ==
  {uri \in DOMAIN fs : GlobMatch(pattern, 1, AsRelativePath(uri), 1)}

\* every order in which the search may hand back a set of uris
Orders(S) ==
  {q \in [1..Cardinality(S) -> S] : \A i, j \in 1..Cardinality(S) : i # j => q[i] # q[j]}

\* collation rank of a character (punctuation before letters, as localeCompare)
CharRank(c) ==
  CASE c = "." -> 1
    [] c = "*" -> 2
    [] c = "/" -> 3
    [] c = "a" -> 10 [] c = "b" -> 11 [] c = "c" -> 12 [] c = "d" -> 13
    [] c = "g" -> 16 [] c = "j" -> 19 [] c = "l" -> 21 [] c = "o" -> 24
    [] c = "s" -> 28 [] c = "t" -> 29 [] c = "w" -> 32
    [] OTHER -> 40

\* a.fsPath.localeCompare(b.fsPath) <= 0
RECURSIVE PathLeq(_, _, _)
PathLeq(a, b, i) ==
  IF i > Len(a) THEN TRUE
  ELSE IF i > Len(b) THEN FALSE
  ELSE IF a[i] = b[i] THEN PathLeq(a, b, i + 1)
  ELSE CharRank(a[i]) < CharRank(b[i])

\* uris.sort((a, b) => a.fsPath.localeCompare(b.fsPath)), by insertion
RECURSIVE SortUris(_)
SortUris(uris) ==
  IF Len(uris) <= 1 THEN uris
  ELSE LET rest == SortUris(Tail(uris))
           x == Head(uris)
           k == Cardinality({i \in 1..Len(rest) : ~PathLeq(x, rest[i], 1)})
       IN  SubSeq(rest, 1, k) \o <<x>> \o SubSeq(rest, k + 1, Len(rest))

\* files that import the file at `rel`; the rename provider returns one text
\* edit per importer
Importers(rel) ==
  IF rel = js("a") THEN <<<<"m", "1">>, <<"m", "2">>>>
  ELSE IF rel = js("b") THEN <<<<"m", "1">>>>
  ELSE <<>>

\* index of the last character of s that lies in set, 0 if none
LastIn(s, set) ==
  LET at == {i \in 1..Len(s) : s[i] \in set}
  IN  IF at = {} THEN 0 ELSE CHOOSE i \in at : \A k \in at : k <= i

WordChars == {"a", "b", "c", "d", "g", "j", "l", "o", "s", "t", "w", "m", "1", "2"}

\* target.replace(/^.*[\\/]/, '').replace(/\.\w+$/, '')
NewBasename(target) ==
  LET base == SubSeq(target, LastIn(target, {"/", "\\"}) + 1, Len(target))
      dot == LastIn(base, {"."})
      tail == SubSeq(base, dot + 1, Len(base))
  IN  IF dot > 0 /\ Len(tail) > 0 /\ \A i \in 1..Len(tail) : tail[i] \in WordChars
        THEN SubSeq(base, 1, dot - 1)
        ELSE base

\* the WorkspaceEdit the rename provider computes for (uri, newName):
\* a sequence of <<uri, textEdits>> entries
ProviderEdits(uri, newName) ==
  LET imp == Importers(AsRelativePath(uri))
  IN  [defined |-> TRUE,
       entries |-> [k \in 1..Len(imp) |->
                     <<JoinPath(root, imp[k]),
                       <<[range |-> AsRelativePath(uri), newText |-> newName]>>>>]]

\* a promise result that is `undefined`: no WorkspaceEdit
NoEdits == [defined |-> FALSE, entries |-> <<>>]


-----------------------------------------------------------------------------
(* performBulkOperations *)

\* a progress message; the count of `${n} file(s)` is kept as n, 0 when none
Msg(text, n) == [text |-> text, n |-> n]

\* progressCallback?.(message), for each message of msgs in turn
Emit(p, msgs) == IF hasCallback THEN p \o msgs ELSE p

Call(name, uri, out) == [call |-> name, uri |-> uri, out |-> out]

\* a JS value that is truthy as a string (set and not empty)
Truthy(x) == x # Undef /\ x # <<>>

FileOps == {"rename", "move", "duplicate"}

\* EntryError altered: the two checks in the other order
EntryError_WorkspaceFirst ==
  IF ~hasWorkspace THEN "NO_WORKSPACE"
  ELSE IF ~trusted THEN "UNTRUSTED"
  ELSE NoError

\* lines 2290-2303: the trust check comes first, then the workspace check
EntryError ==
  IF ~trusted THEN "UNTRUSTED"
  ELSE IF ~hasWorkspace THEN "NO_WORKSPACE"
  ELSE NoError

\* the call starts: checks, `result` initialised, first progress message
Enter ==
  /\ pc = "start" /\ outcome = "pending"
  /\ IF EntryError # NoError
       THEN /\ error' = EntryError
            /\ outcome' = "thrown"
            /\ UNCHANGED <<pc, idx, result, expandedActions, progress>>
       ELSE /\ pc' = "expand"
            /\ idx' = 1
            /\ result' = EmptyResult
            /\ expandedActions' = <<>>
            /\ progress' = Emit(progress, <<Msg("Expanding file patterns...", 0)>>)
            /\ UNCHANGED <<error, outcome>>
  /\ UNCHANGED <<trusted, hasWorkspace, fs, trash, actions, refs, refIndex, edit,
                 log, ext, tpIn, tpOut, callerVars>>

\* the answer of vscode.workspace.findFiles when the search itself fails
SearchFailure == <<Undef>>

\* findFiles altered: the uris are handed back in the order of the search
findFiles_Unsorted(pattern, found) ==
  IF ~Truthy(pattern) THEN [err |-> "INVALID_INPUT", uris |-> <<>>]
  ELSE IF ~hasWorkspace THEN [err |-> "NO_WORKSPACE", uris |-> <<>>]
  ELSE IF found = SearchFailure THEN [err |-> "SEARCH_ERROR", uris |-> <<>>]
  ELSE [err |-> NoError, uris |-> found]

\* findFiles(pattern, 1000), given what the search capability answered
findFiles(pattern, found) ==
  IF ~Truthy(pattern) THEN [err |-> "INVALID_INPUT", uris |-> <<>>]
  ELSE IF ~hasWorkspace THEN [err |-> "NO_WORKSPACE", uris |-> <<>>]
  ELSE IF found = SearchFailure THEN [err |-> "SEARCH_ERROR", uris |-> <<>>]
  ELSE [err |-> NoError, uris |-> SortUris(found)]

\* which branch of the Phase 1 loop body an action takes
ExpandKind(action) ==
  IF action.type = "delete" /\ Truthy(action.path)
    THEN IF IsGlob(action.path) THEN "deleteGlob" ELSE "deleteOne"
  ELSE IF action.type \in FileOps
    THEN IF action.source = Undef THEN "typeError"
         ELSE IF IsGlob(action.source) THEN "opGlob"
         ELSE IF action.target = Undef THEN "typeError"
         ELSE "opOne"
  ELSE "skip"

\* the pattern handed to findFiles by a wildcard action
SearchPattern(action) ==
  IF action.type = "delete" THEN action.path ELSE action.source

\* ExpandDeleteGlob altered: every delete keeps the pattern as its path
ExpandDeleteGlob_KeepsPattern(uris) ==
  [k \in 1..Len(uris) |->
    [type |-> "delete", source |-> Undef, target |-> Undef,
     path |-> AllLogs,
     resolvedSource |-> uris[k], resolvedTarget |-> Undef]]

\* lines 2324-2330: one delete per matched uri
ExpandDeleteGlob(uris) ==
  [k \in 1..Len(uris) |->
    [type |-> "delete", source |-> Undef, target |-> Undef,
     path |-> AsRelativePath(uris[k]),
     resolvedSource |-> uris[k], resolvedTarget |-> Undef]]

\* lines 2344-2354: one action per matched uri, target from transformPath
ExpandOpGlob(action, uris) ==
  [k \in 1..Len(uris) |->
    LET relativePath == AsRelativePath(uris[k])
        newTarget == transformPath(relativePath, action.source, action.target)
    IN  [type |-> action.type, source |-> relativePath, target |-> newTarget,
         path |-> Undef,
         resolvedSource |-> uris[k], resolvedTarget |-> JoinPath(root, newTarget)]]

\* ExpandLiteral altered: the target of a literal action is left unresolved
ExpandLiteral_NoTarget(action) ==
  IF action.type = "delete"
    THEN <<[type |-> action.type, source |-> action.source, target |-> action.target,
            path |-> action.path,
            resolvedSource |-> JoinPath(root, action.path), resolvedTarget |-> Undef]>>
    ELSE <<[type |-> action.type, source |-> action.source, target |-> action.target,
            path |-> action.path,
            resolvedSource |-> JoinPath(root, action.source),
            resolvedTarget |-> Undef]>>

\* lines 2332-2335 and 2356-2360: a literal action keeps its params
ExpandLiteral(action) ==
  IF action.type = "delete"
    THEN <<[type |-> action.type, source |-> action.source, target |-> action.target,
            path |-> action.path,
            resolvedSource |-> JoinPath(root, action.path), resolvedTarget |-> Undef]>>
    ELSE <<[type |-> action.type, source |-> action.source, target |-> action.target,
            path |-> action.path,
            resolvedSource |-> JoinPath(root, action.source),
            resolvedTarget |-> JoinPath(root, action.target)]>>

\* GlobTargetError altered: a wildcard that matches no file raises FILE_NOT_FOUND
GlobTargetError_EmptyIsError(action, uris) ==
  IF Len(uris) = 0 THEN "FILE_NOT_FOUND"
  ELSE IF action.target = Undef
    THEN IF EndsWith(action.source, <<"*">>) THEN "TypeError" ELSE NoError
  ELSE IF \E k \in 1..Len(uris) :
            transformPath(AsRelativePath(uris[k]), action.source, action.target)
              = RegExpSyntaxError
    THEN "SyntaxError"
  ELSE NoError

\* error raised while an opGlob action computes its targets, or NoError
GlobTargetError(action, uris) ==
  IF Len(uris) = 0 THEN NoError
  ELSE IF action.target = Undef
    THEN IF EndsWith(action.source, <<"*">>) THEN "TypeError" ELSE NoError
  ELSE IF \E k \in 1..Len(uris) :
            transformPath(AsRelativePath(uris[k]), action.source, action.target)
              = RegExpSyntaxError
    THEN "SyntaxError"
  ELSE NoError

\* one iteration of the Phase 1 loop (lines 2319-2363)
ExpandStep ==
  /\ pc = "expand" /\ outcome = "pending" /\ idx <= Len(actions)
  /\ LET action == actions[idx]
         kind == ExpandKind(action)
     IN  IF kind \in {"deleteGlob", "opGlob"}
           THEN \E found \in Orders(Matches(SearchPattern(action))) \cup {SearchFailure} :
                  LET r == findFiles(SearchPattern(action), found)
                      e == IF r.err # NoError THEN r.err
                           ELSE IF kind = "opGlob" THEN GlobTargetError(action, r.uris)
                           ELSE NoError
                  IN  /\ log' = Append(log, Call("findFiles", SearchPattern(action),
                                                  IF r.err = NoError THEN "ok" ELSE "error"))
                      /\ IF e # NoError
                           THEN /\ error' = e /\ outcome' = "thrown"
                                /\ UNCHANGED <<idx, expandedActions>>
                           ELSE /\ expandedActions' = expandedActions \o
                                     (IF kind = "deleteGlob"
                                        THEN ExpandDeleteGlob(r.uris)
                                        ELSE ExpandOpGlob(action, r.uris))
                                /\ idx' = idx + 1
                                /\ UNCHANGED <<error, outcome>>
         ELSE /\ log' = log
              /\ IF kind = "typeError"
                   THEN /\ error' = "TypeError" /\ outcome' = "thrown"
                        /\ UNCHANGED <<idx, expandedActions>>
                   ELSE /\ expandedActions' = expandedActions \o
                             (IF kind = "skip" THEN <<>> ELSE ExpandLiteral(action))
                        /\ idx' = idx + 1
                        /\ UNCHANGED <<error, outcome>>
  /\ UNCHANGED <<trusted, hasWorkspace, fs, trash, actions, pc, refs, refIndex, edit,
                 result, progress, ext, tpIn, tpOut, callerVars>>

\* ExpandDone altered: the empty check is missing
ExpandDone_NoEmptyCheck ==
  /\ pc = "expand" /\ outcome = "pending" /\ idx > Len(actions)
  /\ pc' = "validate"
  /\ idx' = 1
  /\ progress' = Emit(progress, <<Msg("Processing", Len(expandedActions)),
                               Msg("Validating all operations...", 0)>>)
  /\ UNCHANGED <<trusted, hasWorkspace, fs, trash, actions, expandedActions, refs,
                 refIndex, edit, result, error, outcome, log, ext, tpIn, tpOut, callerVars>>

\* lines 2365-2376: the empty check, then two progress messages
ExpandDone ==
  /\ pc = "expand" /\ outcome = "pending" /\ idx > Len(actions)
  /\ IF Len(expandedActions) = 0
       THEN /\ error' = "FILE_NOT_FOUND" /\ outcome' = "thrown"
            /\ UNCHANGED <<pc, idx, progress>>
       ELSE /\ pc' = "validate"
            /\ idx' = 1
            /\ progress' = Emit(progress, <<Msg("Processing", Len(expandedActions)),
                                         Msg("Validating all operations...", 0)>>)
            /\ UNCHANGED <<error, outcome>>
  /\ UNCHANGED <<trusted, hasWorkspace, fs, trash, actions, expandedActions, refs,
                 refIndex, edit, result, log, ext, tpIn, tpOut, callerVars>>

\* what fs.stat(uri) can answer: found, FileNotFound, or another failure
StatOutcomes(uri) ==
  {IF Exists(uri) THEN "ok" ELSE "FileNotFound", "NoPermissions"}

\* NeedsTargetCheck altered: duplicate is left out of the list
NeedsTargetCheck_NoDuplicate(action) ==
  action.type \in {"rename", "move"} /\ action.resolvedTarget # Undef

\* line 2396: the actions whose target is checked
NeedsTargetCheck(action) ==
  action.type \in FileOps /\ action.resolvedTarget # Undef

\* SourceVerdict altered: the source is checked for delete actions only
SourceVerdict_DeleteOnly(action, so) ==
  IF action.resolvedSource = Undef \/ so = "ok" \/ action.type # "delete" THEN NoError
  ELSE IF so = "FileNotFound" THEN "FILE_NOT_FOUND"
  ELSE "FS_ERROR"

\* lines 2380-2393: the error the source check raises on a stat answer, or NoError
SourceVerdict(action, so) ==
  IF action.resolvedSource = Undef \/ so = "ok" THEN NoError
  ELSE IF so = "FileNotFound" THEN "FILE_NOT_FOUND"
  ELSE "FS_ERROR"

\* TargetVerdict altered: a target that exists raises nothing
TargetVerdict_Lenient(action, to) ==
  IF ~NeedsTargetCheck(action) THEN NoError
  ELSE IF to \in {"ok", "FileNotFound"} THEN NoError
  ELSE "FS_ERROR"

\* lines 2396-2414: the error the target check raises on a stat answer, or NoError
TargetVerdict(action, to) ==
  IF ~NeedsTargetCheck(action) THEN NoError
  ELSE IF to = "ok" THEN "ALREADY_EXISTS"
  ELSE IF to = "FileNotFound" THEN NoError
  ELSE "FS_ERROR"

\* what fs.stat answers for a uri on a disk when it does not fail of its own
StatOn(disk, uri) == IF uri \in DOMAIN disk THEN "ok" ELSE "FileNotFound"

\* the error the Phase 2 loop (lines 2378-2415) ends with on a disk that stays
\* as it is and a stat that answers for the disk: the verdict on the first
\* action that does not pass, or NoError
RECURSIVE ValidateAll(_, _)
ValidateAll(s, disk) ==
  IF s = <<>> THEN NoError
  ELSE LET sv == SourceVerdict(Head(s), StatOn(disk, Head(s).resolvedSource))
           tv == TargetVerdict(Head(s), StatOn(disk, Head(s).resolvedTarget))
       IN  IF sv # NoError THEN sv
           ELSE IF tv # NoError THEN tv
           ELSE ValidateAll(Tail(s), disk)

\* ValidateStep altered: a target that an earlier action of the batch already
\* has is refused as well
ValidateStep_ChecksBatch ==
  /\ pc = "validate" /\ outcome = "pending" /\ idx <= Len(expandedActions)
  /\ LET action == expandedActions[idx]
     IN  \E so \in StatOutcomes(action.resolvedSource) :
         \E to \in (IF NeedsTargetCheck(action)
                      THEN StatOutcomes(action.resolvedTarget) ELSE {"none"}) :
           LET sv == SourceVerdict(action, so)
               tv == IF /\ NeedsTargetCheck(action)
                        /\ \E j \in 1..(idx - 1) :
                             expandedActions[j].resolvedTarget = action.resolvedTarget
                       THEN "ALREADY_EXISTS"
                       ELSE TargetVerdict(action, to)
               srcCall == IF action.resolvedSource = Undef THEN <<>>
                          ELSE <<Call("stat", action.resolvedSource, so)>>
               tgtCall == IF sv = NoError /\ NeedsTargetCheck(action)
                            THEN <<Call("stat", action.resolvedTarget, to)>>
                            ELSE <<>>
           IN  /\ log' = log \o srcCall \o tgtCall
               /\ IF sv # NoError
                    THEN /\ error' = sv /\ outcome' = "thrown" /\ idx' = idx
                    ELSE IF tv # NoError
                      THEN /\ error' = tv /\ outcome' = "thrown" /\ idx' = idx
                      ELSE /\ idx' = idx + 1 /\ UNCHANGED <<error, outcome>>
  /\ UNCHANGED <<trusted, hasWorkspace, fs, trash, actions, pc, expandedActions, refs,
                 refIndex, edit, result, progress, ext, tpIn, tpOut, callerVars>>

\* one iteration of the Phase 2 loop (lines 2378-2415)
ValidateStep ==
  /\ pc = "validate" /\ outcome = "pending" /\ idx <= Len(expandedActions)
  /\ LET action == expandedActions[idx]
     IN  \E so \in StatOutcomes(action.resolvedSource) :
         \E to \in (IF NeedsTargetCheck(action)
                      THEN StatOutcomes(action.resolvedTarget) ELSE {"none"}) :
           LET sv == SourceVerdict(action, so)
               tv == TargetVerdict(action, to)
               srcCall == IF action.resolvedSource = Undef THEN <<>>
                          ELSE <<Call("stat", action.resolvedSource, so)>>
               tgtCall == IF sv = NoError /\ NeedsTargetCheck(action)
                            THEN <<Call("stat", action.resolvedTarget, to)>>
                            ELSE <<>>
           IN  /\ log' = log \o srcCall \o tgtCall
               /\ IF sv # NoError
                    THEN /\ error' = sv /\ outcome' = "thrown" /\ idx' = idx
                    ELSE IF tv # NoError
                      THEN /\ error' = tv /\ outcome' = "thrown" /\ idx' = idx
                      ELSE /\ idx' = idx + 1 /\ UNCHANGED <<error, outcome>>
  /\ UNCHANGED <<trusted, hasWorkspace, fs, trash, actions, pc, expandedActions, refs,
                 refIndex, edit, result, progress, ext, tpIn, tpOut, callerVars>>

\* WantsReferences altered: references are requested for duplicates as well
WantsReferences_WithDuplicate(action) ==
  /\ action.type \in FileOps
  /\ action.resolvedSource # Undef /\ action.resolvedTarget # Undef

\* line 2425: the actions for which reference edits are requested
WantsReferences(action) ==
  /\ action.type \in {"rename", "move"}
  /\ action.resolvedSource # Undef /\ action.resolvedTarget # Undef

\* SelectWanting altered: the promises are kept in the opposite order
RECURSIVE SelectWanting_Reversed(_)
SelectWanting_Reversed(s) ==
  IF s = <<>> THEN <<>>
  ELSE IF WantsReferences(Head(s))
    THEN SelectWanting_Reversed(Tail(s)) \o <<Head(s)>>
    ELSE SelectWanting_Reversed(Tail(s))

\* the actions of s for which references are wanted, in order
RECURSIVE SelectWanting(_)
SelectWanting(s) ==
  IF s = <<>> THEN <<>>
  ELSE IF WantsReferences(Head(s))
    THEN <<Head(s)>> \o SelectWanting(Tail(s))
    ELSE SelectWanting(Tail(s))

\* lines 2419-2447: the edit is created and one promise per rename/move is
\* started; each runs up to its first await (openTextDocument)
StartCollect ==
  /\ pc = "validate" /\ outcome = "pending" /\ idx > Len(expandedActions)
  /\ pc' = "collect"
  /\ progress' = Emit(progress, <<Msg("Collecting references", Len(expandedActions))>>)
  /\ edit' = <<>>
  /\ refs' = LET w == SelectWanting(expandedActions)
             IN  [k \in 1..Len(w) |->
                   [uri |-> w[k].resolvedSource, target |-> w[k].target,
                    stage |-> "opening", requested |-> FALSE, value |-> NoEdits]]
  /\ UNCHANGED <<trusted, hasWorkspace, fs, trash, actions, idx, expandedActions,
                 refIndex, result, error, outcome, log, ext, tpIn, tpOut, callerVars>>

\* lines 2429-2439: openTextDocument answers; on success the rename provider is
\* asked, on failure the promise resolves to undefined (line 2442)
RefOpen ==
  /\ pc = "collect" /\ outcome = "pending"
  /\ \E k \in 1..Len(refs) : \E opened \in BOOLEAN :
       /\ refs[k].stage = "opening"
       /\ refs' = [refs EXCEPT ![k] =
                    IF opened
                      THEN [@ EXCEPT !.stage = "requested", !.requested = TRUE]
                      ELSE [@ EXCEPT !.stage = "settled"]]
  /\ UNCHANGED <<trusted, hasWorkspace, fs, trash, actions, pc, idx, expandedActions,
                 refIndex, edit, result, error, outcome, log, progress, ext,
                 tpIn, tpOut, callerVars>>

\* RefAnswer altered: a provider that throws is not caught
RefAnswer_Throws ==
  /\ pc = "collect" /\ outcome = "pending"
  /\ \E k \in 1..Len(refs) :
     \E v \in {ProviderEdits(refs[k].uri, NewBasename(refs[k].target)), NoEdits} :
       /\ refs[k].stage = "requested"
       /\ refs' = [refs EXCEPT ![k] = [@ EXCEPT !.stage = "settled", !.value = v]]
       /\ IF v = NoEdits
            THEN error' = "FS_ERROR" /\ outcome' = "thrown"
            ELSE UNCHANGED <<error, outcome>>
  /\ UNCHANGED <<trusted, hasWorkspace, fs, trash, actions, pc, idx, expandedActions,
                 refIndex, edit, result, log, progress, ext, tpIn, tpOut, callerVars>>

\* lines 2434-2443: the provider answers with its edits, or with nothing / by
\* throwing, which both leave undefined
RefAnswer ==
  /\ pc = "collect" /\ outcome = "pending"
  /\ \E k \in 1..Len(refs) :
     \E v \in {ProviderEdits(refs[k].uri, NewBasename(refs[k].target)), NoEdits} :
       /\ refs[k].stage = "requested"
       /\ refs' = [refs EXCEPT ![k] = [@ EXCEPT !.stage = "settled", !.value = v]]
  /\ UNCHANGED <<trusted, hasWorkspace, fs, trash, actions, pc, idx, expandedActions,
                 refIndex, edit, result, error, outcome, log, progress, ext,
                 tpIn, tpOut, callerVars>>

\* FinishCollect altered: the loop starts only if every request was answered
FinishCollect_NeedsAnswers ==
  /\ pc = "collect" /\ outcome = "pending"
  /\ \A k \in 1..Len(refs) : refs[k].stage = "settled" /\ refs[k].value.defined
  /\ pc' = "build"
  /\ idx' = 1
  /\ refIndex' = 0
  /\ progress' = Emit(progress, <<Msg("Building atomic transaction...", 0)>>)
  /\ UNCHANGED <<trusted, hasWorkspace, fs, trash, actions, expandedActions, refs,
                 edit, result, error, outcome, log, ext, tpIn, tpOut, callerVars>>

\* FinishCollect altered: the loop starts without awaiting the promises
FinishCollect_Early ==
  /\ pc = "collect" /\ outcome = "pending"
  /\ pc' = "build"
  /\ idx' = 1
  /\ refIndex' = 0
  /\ progress' = Emit(progress, <<Msg("Building atomic transaction...", 0)>>)
  /\ UNCHANGED <<trusted, hasWorkspace, fs, trash, actions, expandedActions, refs,
                 edit, result, error, outcome, log, ext, tpIn, tpOut, callerVars>>

\* lines 2450-2456: Promise.all resolves once every promise has settled
FinishCollect ==
  /\ pc = "collect" /\ outcome = "pending"
  /\ \A k \in 1..Len(refs) : refs[k].stage = "settled"
  /\ pc' = "build"
  /\ idx' = 1
  /\ refIndex' = 0
  /\ progress' = Emit(progress, <<Msg("Building atomic transaction...", 0)>>)
  /\ UNCHANGED <<trusted, hasWorkspace, fs, trash, actions, expandedActions, refs,
                 edit, result, error, outcome, log, ext, tpIn, tpOut, callerVars>>


\* BuildKind altered: a delete is not carried out in the loop
BuildKind_DeleteSkipped(action) ==
  IF action.type \in {"rename", "move"}
     /\ action.resolvedSource # Undef /\ action.resolvedTarget # Undef
    THEN "rename"
  ELSE IF action.type = "duplicate"
          /\ action.resolvedSource # Undef /\ action.resolvedTarget # Undef
    THEN "duplicate"
  ELSE "none"

\* BuildKind altered: a move is carried out at once, as a copy
BuildKind_MoveCopies(action) ==
  IF action.type = "delete" /\ action.resolvedSource # Undef THEN "delete"
  ELSE IF action.type = "rename"
          /\ action.resolvedSource # Undef /\ action.resolvedTarget # Undef
    THEN "rename"
  ELSE IF action.type \in {"duplicate", "move"}
          /\ action.resolvedSource # Undef /\ action.resolvedTarget # Undef
    THEN "duplicate"
  ELSE "none"

\* which branch of the Phase 4 loop body an action takes (lines 2459, 2468, 2490)
BuildKind(action) ==
  IF action.type = "delete" /\ action.resolvedSource # Undef THEN "delete"
  ELSE IF action.type \in {"rename", "move"}
          /\ action.resolvedSource # Undef /\ action.resolvedTarget # Undef
    THEN "rename"
  ELSE IF action.type = "duplicate"
          /\ action.resolvedSource # Undef /\ action.resolvedTarget # Undef
    THEN "duplicate"
  ELSE "none"

\* MoveToTrash altered: the delete is permanent (useTrash: false)
MoveToTrash_Permanent(t, uri, content) == t

\* line 2461: with useTrash: true the deleted file goes to the trash, from
\* where it can be restored
MoveToTrash(t, uri, content) == t \cup {<<uri, content>>}

\* what fs.delete(uri, {recursive, useTrash: true}) can answer
DeleteOutcomes(uri) ==
  IF Exists(uri) THEN {"ok", "NoPermissions"} ELSE {"FileNotFound"}

\* CopyOutcomes altered: the copy is made with overwrite enabled
CopyOutcomes_Overwrites(source, target) ==
  IF ~Exists(source) THEN {"FileNotFound"}
  ELSE {"ok", "NoPermissions"}

\* what fs.copy(source, target, {overwrite: false}) can answer
CopyOutcomes(source, target) ==
  IF ~Exists(source) THEN {"FileNotFound"}
  ELSE IF Exists(target) THEN {"FileExists"}
  ELSE {"ok", "NoPermissions"}

\* RefEditAt altered: the index is read after the increment
RefEditAt_Shifted(i) == IF i + 2 <= Len(refs) THEN refs[i + 2].value ELSE NoEdits

\* referenceEdits[refIndex]
RefEditAt(i) == IF i + 1 <= Len(refs) THEN refs[i + 1].value ELSE NoEdits

\* lines 2475-2480: one edit.replace per text edit of every entry, in order
RECURSIVE Replacements(_)
Replacements(entries) ==
  IF entries = <<>> THEN <<>>
  ELSE LET uri == Head(entries)[1]
           textEdits == Head(entries)[2]
       IN  [k \in 1..Len(textEdits) |->
             [op |-> "replace", uri |-> uri, range |-> textEdits[k].range,
              newText |-> textEdits[k].newText]]
           \o Replacements(Tail(entries))

\* SuccessEntry altered: a rename or move is not marked successful before the
\* commit
SuccessEntry_Unconfirmed(action) ==
  IF action.type = "delete"
    THEN [type |-> "delete", source |-> action.path, target |-> Undef,
          success |-> TRUE, error |-> NoError]
    ELSE [type |-> action.type, source |-> action.source, target |-> action.target,
          success |-> action.type = "duplicate", error |-> NoError]

\* lines 2462-2467, 2483-2489, 2493-2499: the entry of a step that succeeded
SuccessEntry(action) ==
  IF action.type = "delete"
    THEN [type |-> "delete", source |-> action.path, target |-> Undef,
          success |-> TRUE, error |-> NoError]
    ELSE [type |-> action.type, source |-> action.source, target |-> action.target,
          success |-> TRUE, error |-> NoError]

\* FailureEntry altered: the error message is not kept
FailureEntry_NoMessage(action, message) ==
  [type |-> action.type,
   source |-> IF Truthy(action.source) THEN action.source ELSE action.path,
   target |-> action.target, success |-> FALSE, error |-> NoError]

\* lines 2501-2510: the entry the catch block records
FailureEntry(action, message) ==
  [type |-> action.type,
   source |-> IF Truthy(action.source) THEN action.source ELSE action.path,
   target |-> action.target, success |-> FALSE, error |-> message]

\* Succeeded altered: successCount is not incremented
Succeeded_NoCount(r, entry, refCount) ==
  [r EXCEPT !.operations = Append(@, entry),
            !.totalReferencesUpdated = @ + refCount]

\* the result after a step that succeeded (push, successCount++, references)
Succeeded(r, entry, refCount) ==
  [r EXCEPT !.operations = Append(@, entry),
            !.successCount = @ + 1,
            !.totalReferencesUpdated = @ + refCount]

\* Failed altered: the entry is recorded, failedCount is not incremented
Failed_NoCount(r, entry) ==
  [r EXCEPT !.operations = Append(@, entry)]

\* lines 2503-2510: the result after the catch block
Failed(r, entry) ==
  [r EXCEPT !.operations = Append(@, entry), !.failedCount = @ + 1]

\* one iteration of the Phase 4 loop (lines 2457-2512)
BuildStep ==
  /\ pc = "build" /\ outcome = "pending" /\ idx <= Len(expandedActions)
  /\ idx' = idx + 1
  /\ LET action == expandedActions[idx]
         kind == BuildKind(action)
     IN  CASE kind = "delete" ->
                \E out \in DeleteOutcomes(action.resolvedSource) :
                  /\ log' = Append(log, Call("delete", action.resolvedSource, out))
                  /\ IF out = "ok"
                       THEN /\ fs' = Remove(fs, action.resolvedSource)
                            /\ trash' = MoveToTrash(trash, action.resolvedSource,
                                                     fs[action.resolvedSource])
                            /\ result' = Succeeded(result, SuccessEntry(action), 0)
                       ELSE /\ result' = Failed(result, FailureEntry(action, out))
                            /\ UNCHANGED <<fs, trash>>
                  /\ UNCHANGED <<edit, refIndex>>
           [] kind = "rename" ->
                LET refEdit == RefEditAt(refIndex)
                    merged == IF refEdit.defined THEN Replacements(refEdit.entries) ELSE <<>>
                IN  /\ edit' = edit \o <<[op |-> "rename", from |-> action.resolvedSource,
                                          to |-> action.resolvedTarget,
                                          overwrite |-> FALSE]>> \o merged
                    /\ refIndex' = refIndex + 1
                    /\ result' = Succeeded(result, SuccessEntry(action), Len(merged))
                    /\ UNCHANGED <<fs, trash, log>>
           [] kind = "duplicate" ->
                \E out \in CopyOutcomes(action.resolvedSource, action.resolvedTarget) :
                  /\ log' = Append(log, Call("copy", action.resolvedTarget, out))
                  /\ IF out = "ok"
                       THEN /\ fs' = Put(fs, action.resolvedTarget,
                                         fs[action.resolvedSource])
                            /\ result' = Succeeded(result, SuccessEntry(action), 0)
                       ELSE /\ result' = Failed(result, FailureEntry(action, out))
                            /\ fs' = fs
                  /\ UNCHANGED <<trash, edit, refIndex>>
           [] OTHER -> UNCHANGED <<fs, trash, log, edit, refIndex, result>>
  /\ UNCHANGED <<trusted, hasWorkspace, actions, pc, expandedActions, refs, error,
                 outcome, progress, ext, tpIn, tpOut, callerVars>>

\* the disk after the file operations of a WorkspaceEdit are applied in order;
\* ok is FALSE when one of them cannot be applied (source missing, or target
\* present with overwrite: false)
RECURSIVE ApplyFileOps(_, _)
ApplyFileOps(ops, disk) ==
  IF ops = <<>> THEN [ok |-> TRUE, disk |-> disk]
  ELSE LET o == Head(ops)
       IN  IF o.op # "rename" THEN ApplyFileOps(Tail(ops), disk)
           ELSE IF o.from \notin DOMAIN disk THEN [ok |-> FALSE, disk |-> disk]
           ELSE IF o.to \in DOMAIN disk /\ ~o.overwrite THEN [ok |-> FALSE, disk |-> disk]
           ELSE ApplyFileOps(Tail(ops), Put(Remove(disk, o.from), o.to, disk[o.from]))

\* what vscode.workspace.applyEdit(edit) can answer: true only if the whole
\* batch can be applied; false (rejection) at any time
CommitOutcomes(e) ==
  IF ApplyFileOps(e, fs).ok THEN {TRUE, FALSE} ELSE {FALSE}

\* Commit altered: an empty batch is not committed, the result is returned
Commit_SkipsEmpty ==
  /\ pc = "build" /\ outcome = "pending" /\ idx > Len(expandedActions)
  /\ pc' = "apply"
  /\ progress' = Emit(progress, <<Msg("Applying changes...", 0)>>)
  /\ IF edit = <<>>
       THEN /\ outcome' = "returned"
            /\ UNCHANGED <<log, fs, error>>
       ELSE \E success \in CommitOutcomes(edit) :
              /\ log' = Append(log, Call("applyEdit", Undef,
                                         IF success THEN "ok" ELSE "rejected"))
              /\ IF success
                   THEN /\ fs' = ApplyFileOps(edit, fs).disk
                        /\ outcome' = "returned"
                        /\ error' = error
                   ELSE /\ fs' = fs
                        /\ outcome' = "thrown"
                        /\ error' = "EDIT_REJECTED"
  /\ UNCHANGED <<trusted, hasWorkspace, trash, actions, idx, expandedActions, refs,
                 refIndex, edit, result, ext, tpIn, tpOut, callerVars>>

\* Commit altered: a rejected commit puts the deleted files back
Commit_RollsBack ==
  /\ pc = "build" /\ outcome = "pending" /\ idx > Len(expandedActions)
  /\ pc' = "apply"
  /\ progress' = Emit(progress, <<Msg("Applying changes...", 0)>>)
  /\ \E success \in CommitOutcomes(edit) :
       /\ log' = Append(log, Call("applyEdit", Undef, IF success THEN "ok" ELSE "rejected"))
       /\ IF success
            THEN /\ fs' = ApplyFileOps(edit, fs).disk
                 /\ trash' = trash
                 /\ outcome' = "returned"
                 /\ error' = error
            ELSE /\ fs' = [uri \in (DOMAIN fs) \cup {e[1] : e \in trash} |->
                           IF uri \in DOMAIN fs THEN fs[uri]
                           ELSE (CHOOSE e \in trash : e[1] = uri)[2]]
                 /\ trash' = {}
                 /\ outcome' = "thrown"
                 /\ error' = "EDIT_REJECTED"
  /\ UNCHANGED <<trusted, hasWorkspace, actions, idx, expandedActions, refs,
                 refIndex, edit, result, ext, tpIn, tpOut, callerVars>>

\* lines 2516-2527: the commit of the batch, then return or EDIT_REJECTED
Commit ==
  /\ pc = "build" /\ outcome = "pending" /\ idx > Len(expandedActions)
  /\ pc' = "apply"
  /\ progress' = Emit(progress, <<Msg("Applying changes...", 0)>>)
  /\ \E success \in CommitOutcomes(edit) :
       /\ log' = Append(log, Call("applyEdit", Undef, IF success THEN "ok" ELSE "rejected"))
       /\ IF success
            THEN /\ fs' = ApplyFileOps(edit, fs).disk
                 /\ outcome' = "returned"
                 /\ error' = error
            ELSE /\ fs' = fs
                 /\ outcome' = "thrown"
                 /\ error' = "EDIT_REJECTED"
  /\ UNCHANGED <<trusted, hasWorkspace, trash, actions, idx, expandedActions, refs,
                 refIndex, edit, result, ext, tpIn, tpOut, callerVars>>

\* another actor creates or removes a file while the call is suspended
External ==
  /\ outcome = "pending" /\ pc \in {"expand", "validate", "collect", "build"}
  /\ ext < MaxExternal
  /\ ext' = ext + 1
  /\ \E f \in Volatile :
       LET uri == JoinPath(root, f)
       IN  fs' = IF Exists(uri) THEN Remove(fs, uri) ELSE Put(fs, uri, ExtContent)
  /\ UNCHANGED <<trusted, hasWorkspace, trash, actions, pc, idx, expandedActions, refs,
                 refIndex, edit, result, error, outcome, log, progress, tpIn, tpOut, callerVars>>

-----------------------------------------------------------------------------
(* Specification of one call *)

\* there is no second call
NoOther == [pc |-> "none"]

\* the adapter has not answered (or the call was not made by an adapter)
NoPayload == [status |-> "none"]

\* the disk on which the files of S exist, each with its own content
DiskOf(S) == [uri \in {JoinPath(root, f) : f \in S} |-> AsRelativePath(uri)]

Init ==
  /\ trusted \in BOOLEAN
  /\ hasWorkspace \in BOOLEAN
  /\ fs \in {DiskOf(AlwaysPresent \cup S) : S \in SUBSET (Files \ AlwaysPresent)}
  /\ trash = {}
  /\ actions \in Batches
  /\ pc = "start"
  /\ idx = 0
  /\ expandedActions = <<>>
  /\ refs = <<>>
  /\ refIndex = 0
  /\ edit = <<>>
  /\ result = EmptyResult
  /\ error = NoError
  /\ outcome = "pending"
  /\ log = <<>>
  /\ progress = <<>>
  /\ ext = 0
  /\ tpIn = <<>>
  /\ tpOut = <<>>
  /\ hasCallback = TRUE
  /\ other = NoOther
  /\ tool = "none"
  /\ payload = NoPayload

Next ==
  \/ Enter
  \/ ExpandStep
  \/ ExpandDone
  \/ ValidateStep
  \/ StartCollect
  \/ RefOpen
  \/ RefAnswer
  \/ FinishCollect
  \/ BuildStep
  \/ Commit
  \/ External

Spec == Init /\ [][Next]_vars

-----------------------------------------------------------------------------
(* Specification of one call, with or without a progress callback, while no *)
(* other actor touches the disk                                            *)

InitP ==
  /\ trusted \in BOOLEAN
  /\ hasWorkspace \in BOOLEAN
  /\ fs \in {DiskOf(AlwaysPresent \cup S) : S \in SUBSET (Files \ AlwaysPresent)}
  /\ trash = {}
  /\ actions \in Batches
  /\ pc = "start"
  /\ idx = 0
  /\ expandedActions = <<>>
  /\ refs = <<>>
  /\ refIndex = 0
  /\ edit = <<>>
  /\ result = EmptyResult
  /\ error = NoError
  /\ outcome = "pending"
  /\ log = <<>>
  /\ progress = <<>>
  /\ ext = 0
  /\ tpIn = <<>>
  /\ tpOut = <<>>
  /\ hasCallback \in BOOLEAN
  /\ other = NoOther
  /\ tool = "none"
  /\ payload = NoPayload

\* the steps of the call itself
NextP ==
  \/ Enter
  \/ ExpandStep
  \/ ExpandDone
  \/ ValidateStep
  \/ StartCollect
  \/ RefOpen
  \/ RefAnswer
  \/ FinishCollect
  \/ BuildStep
  \/ Commit

SpecP == InitP /\ [][NextP]_vars

\* the same, when every capability call that was issued completes: the async
\* function is resumed after each await, so a call that can take a step
\* takes one
SpecLive == InitP /\ [][NextP]_vars /\ WF_vars(NextP)

-----------------------------------------------------------------------------
(* Two invocations in progress at once.  The parameters and the locals of the
   function belong to one invocation; the workspace, the disk and the trash
   are shared.  One invocation runs; the other is suspended at an await. *)

\* the parameters and locals of the running invocation, saved under a number
Frame(id) ==
  [id |-> id, actions |-> actions, pc |-> pc, idx |-> idx,
   expandedActions |-> expandedActions, refs |-> refs, refIndex |-> refIndex,
   edit |-> edit, result |-> result, error |-> error, outcome |-> outcome,
   log |-> log, progress |-> progress, hasCallback |-> hasCallback]

\* the batches the two invocations are given
TwoBatches ==
  { <<Op("rename", js("a"), ts("a"))>>,
    <<Op("rename", js("b"), logf("c"))>>,
    <<Op("move", js("b"), ts("a"))>>,
    <<Delete(logf("c"))>>,
    <<Op("duplicate", js("a"), ts("a"))>>,
    <<Op("rename", AnyJs, AnyTs)>>,
    <<Delete(logf("d")), Op("rename", js("a"), ts("a"))>> }

\* Switch altered: the edit batch is one object both invocations write to
Switch_SharedBatch ==
  /\ other.pc # "none" /\ other.outcome = "pending"
  /\ other' = Frame(3 - other.id)
  /\ actions' = other.actions
  /\ pc' = other.pc
  /\ idx' = other.idx
  /\ expandedActions' = other.expandedActions
  /\ refs' = other.refs
  /\ refIndex' = other.refIndex
  /\ edit' = edit
  /\ result' = other.result
  /\ error' = other.error
  /\ outcome' = other.outcome
  /\ log' = other.log
  /\ progress' = other.progress
  /\ hasCallback' = other.hasCallback
  /\ UNCHANGED <<trusted, hasWorkspace, fs, trash, ext, tpIn, tpOut, tool, payload>>

\* the running invocation is suspended at an await (or has ended) and the
\* other one is resumed: each continues with its own parameters and locals
\* (result of line 2306, edit of line 2421, refIndex of line 2456)
Switch ==
  /\ other.pc # "none" /\ other.outcome = "pending"
  /\ other' = Frame(3 - other.id)
  /\ actions' = other.actions
  /\ pc' = other.pc
  /\ idx' = other.idx
  /\ expandedActions' = other.expandedActions
  /\ refs' = other.refs
  /\ refIndex' = other.refIndex
  /\ edit' = other.edit
  /\ result' = other.result
  /\ error' = other.error
  /\ outcome' = other.outcome
  /\ log' = other.log
  /\ progress' = other.progress
  /\ hasCallback' = other.hasCallback
  /\ UNCHANGED <<trusted, hasWorkspace, fs, trash, ext, tpIn, tpOut, tool, payload>>

InitTwo ==
  /\ trusted = TRUE
  /\ hasWorkspace = TRUE
  /\ fs \in {DiskOf(AlwaysPresent \cup S) : S \in SUBSET (Files \ AlwaysPresent)}
  /\ trash = {}
  /\ actions \in TwoBatches
  /\ pc = "start"
  /\ idx = 0
  /\ expandedActions = <<>>
  /\ refs = <<>>
  /\ refIndex = 0
  /\ edit = <<>>
  /\ result = EmptyResult
  /\ error = NoError
  /\ outcome = "pending"
  /\ log = <<>>
  /\ progress = <<>>
  /\ ext = 0
  /\ tpIn = <<>>
  /\ tpOut = <<>>
  /\ hasCallback = TRUE
  /\ other \in {[id |-> 2, actions |-> b, pc |-> "start", idx |-> 0,
                  expandedActions |-> <<>>, refs |-> <<>>, refIndex |-> 0,
                  edit |-> <<>>, result |-> EmptyResult, error |-> NoError,
                  outcome |-> "pending", log |-> <<>>, progress |-> <<>>,
                  hasCallback |-> FALSE] : b \in TwoBatches}
  /\ tool = "none"
  /\ payload = NoPayload

NextTwo ==
  \/ Enter
  \/ ExpandStep
  \/ ExpandDone
  \/ ValidateStep
  \/ StartCollect
  \/ RefOpen
  \/ RefAnswer
  \/ FinishCollect
  \/ BuildStep
  \/ Commit
  \/ Switch

SpecTwo == InitTwo /\ [][NextTwo]_vars

-----------------------------------------------------------------------------
(* The language-model tools of tools.ts that call performBulkOperations *)

ToolNames == {"BulkRenameTool", "BulkDeleteTool", "BulkMoveTool"}

\* options.input.operations of the rename and move tools: source/target pairs
OperationPool ==
  { [source |-> js("a"), target |-> ts("a")],
    [source |-> js("b"), target |-> logf("c")],
    [source |-> js("b"), target |-> ts("a")],
    [source |-> AnyJs, target |-> AnyTs] }

\* options.input.paths of the delete tool
PathInputPool == {logf("c"), logf("d"), AllLogs}

\* the inputs a tool is invoked with, as its input schema admits them
ToolInputs(t) ==
  UNION {[1..n -> IF t = "BulkDeleteTool" THEN PathInputPool ELSE OperationPool] :
           n \in 0..MaxActions}

\* the BulkAction list the tool builds from its input (operations.map / paths.map)
ToolActions(t, in) ==
  [k \in 1..Len(in) |->
     IF t = "BulkDeleteTool" THEN Delete(in[k])
     ELSE Op(IF t = "BulkRenameTool" THEN "rename" ELSE "move",
             in[k].source, in[k].target)]

\* only the rename tool passes a progress callback
ToolCallback(t) == t = "BulkRenameTool"

\* the values performBulkOperations throws: all of them are Error objects
ErrorInstances ==
  {"UNTRUSTED", "NO_WORKSPACE", "INVALID_INPUT", "SEARCH_ERROR", "FILE_NOT_FOUND",
   "ALREADY_EXISTS", "FS_ERROR", "EDIT_REJECTED", "TypeError", "SyntaxError"}

\* err instanceof Error ? err.message : 'Unknown error'
ErrorMessage(e) ==
  IF e \in ErrorInstances THEN <<"message of", e>> ELSE <<"Unknown error">>

\* the object the try block serialises
SuccessPayload(t, r) ==
  IF t = "BulkDeleteTool"
    THEN [status |-> "success", deletedCount |-> r.successCount,
          failedCount |-> r.failedCount,
          summary |-> <<"Deleted", r.successCount>>,
          operations |-> r.operations]
    ELSE [status |-> "success", appliedEdits |-> r.successCount,
          failedEdits |-> r.failedCount,
          totalReferencesUpdated |-> r.totalReferencesUpdated,
          summary |-> <<IF t = "BulkRenameTool" THEN "Renamed" ELSE "Moved",
                        r.successCount, r.totalReferencesUpdated>>,
          operations |-> r.operations]

\* the object the catch block serialises
ErrorPayload(e) == [status |-> "error", message |-> ErrorMessage(e)]

\* ToolPayload altered: a result with failed operations is reported as an error
ToolPayload_FailuresAreErrors(t, out, e, r) ==
  IF out = "returned" /\ r.failedCount = 0 THEN SuccessPayload(t, r)
  ELSE ErrorPayload(e)

\* what invoke returns once the awaited call has returned or thrown
ToolPayload(t, out, e, r) ==
  IF out = "returned" THEN SuccessPayload(t, r) ELSE ErrorPayload(e)

\* invoke returns its LanguageModelToolResult
ToolReturn ==
  /\ tool \in ToolNames /\ outcome # "pending" /\ payload.status = "none"
  /\ payload' = ToolPayload(tool, outcome, error, result)
  /\ UNCHANGED <<trusted, hasWorkspace, fs, trash, actions, pc, idx, expandedActions,
                 refs, refIndex, edit, result, error, outcome, log, progress, ext,
                 tpIn, tpOut, hasCallback, other, tool>>

InitTool ==
  /\ trusted \in BOOLEAN
  /\ hasWorkspace \in BOOLEAN
  /\ fs \in {DiskOf(AlwaysPresent \cup S) : S \in SUBSET (Files \ AlwaysPresent)}
  /\ trash = {}
  /\ tool \in ToolNames
  /\ actions \in {ToolActions(tool, in) : in \in ToolInputs(tool)}
  /\ hasCallback = ToolCallback(tool)
  /\ pc = "start"
  /\ idx = 0
  /\ expandedActions = <<>>
  /\ refs = <<>>
  /\ refIndex = 0
  /\ edit = <<>>
  /\ result = EmptyResult
  /\ error = NoError
  /\ outcome = "pending"
  /\ log = <<>>
  /\ progress = <<>>
  /\ ext = 0
  /\ tpIn = <<>>
  /\ tpOut = <<>>
  /\ other = NoOther
  /\ payload = NoPayload

NextTool ==
  \/ Enter
  \/ ExpandStep
  \/ ExpandDone
  \/ ValidateStep
  \/ StartCollect
  \/ RefOpen
  \/ RefAnswer
  \/ FinishCollect
  \/ BuildStep
  \/ Commit
  \/ ToolReturn

SpecTool == InitTool /\ [][NextTool]_vars

-----------------------------------------------------------------------------
(* renameFile(oldPath, newPath), run beside performBulkOperations on a single
   rename of the same file: each works on its own copy of the same disk; the
   parameters and locals of renameFile are kept in `other` *)

\* the single renames both functions are given
RenamePairs ==
  { [source |-> js("a"), target |-> ts("a")],
    [source |-> js("b"), target |-> logf("c")],
    [source |-> js("b"), target |-> ts("a")],
    [source |-> logf("c"), target |-> logf("d")] }

\* lines 1485-1498: the trust check, then the workspace check
RenameFileEntryError ==
  IF ~trusted THEN "UNTRUSTED"
  ELSE IF ~hasWorkspace THEN "NO_WORKSPACE"
  ELSE NoError

\* what fs.stat can answer for a uri on the disk renameFile works on
RenameFileStatOutcomes(disk, uri) == {StatOn(disk, uri), "NoPermissions"}

\* lines 1505-1522: the error the source check raises on a stat answer
RenameFileSourceVerdict(so) ==
  IF so = "ok" THEN NoError
  ELSE IF so = "FileNotFound" THEN "FILE_NOT_FOUND"
  ELSE IF so = "NoPermissions" THEN "PERMISSION_DENIED"
  ELSE "FS_ERROR"

\* lines 1524-1540: the error the target check raises on a stat answer
RenameFileTargetVerdict(to) ==
  IF to = "ok" THEN "ALREADY_EXISTS"
  ELSE IF to = "FileNotFound" THEN NoError
  ELSE "FS_ERROR"

\* RenameFileBatch altered: the rename may overwrite its target
RenameFileBatch_Overwrites(oldUri, newUri, referenceEdits) ==
  <<[op |-> "rename", from |-> oldUri, to |-> newUri, overwrite |-> TRUE]>>
  \o (IF referenceEdits.defined THEN Replacements(referenceEdits.entries) ELSE <<>>)

\* lines 1576-1590: the edit with the rename and the merged reference edits
RenameFileBatch(oldUri, newUri, referenceEdits) ==
  <<[op |-> "rename", from |-> oldUri, to |-> newUri, overwrite |-> FALSE]>>
  \o (IF referenceEdits.defined THEN Replacements(referenceEdits.entries) ELSE <<>>)

\* lines 1563-1567: referencesUpdated += entries[1].length for every entry
RECURSIVE CountReferences(_)
CountReferences(entries) ==
  IF entries = <<>> THEN 0
  ELSE Len(Head(entries)[2]) + CountReferences(Tail(entries))

\* renameFile before its first statement
RenameFileStart(pair, disk) ==
  [pc |-> "validate", oldPath |-> pair.source, newPath |-> pair.target,
   oldUri |-> JoinPath(root, pair.source), newUri |-> JoinPath(root, pair.target),
   disk |-> disk, stats |-> <<>>, collected |-> FALSE,
   referenceEdits |-> NoEdits, referencesUpdated |-> 0, edit |-> <<>>,
   commit |-> "none", error |-> NoError, outcome |-> "pending"]

\* lines 1485-1540: Phase 1 of renameFile
RenameFileValidate ==
  /\ other.pc = "validate" /\ other.outcome = "pending"
  /\ IF RenameFileEntryError # NoError
       THEN other' = [other EXCEPT !.error = RenameFileEntryError, !.outcome = "thrown"]
       ELSE \E so \in RenameFileStatOutcomes(other.disk, other.oldUri) :
            \E to \in RenameFileStatOutcomes(other.disk, other.newUri) :
              LET sv == RenameFileSourceVerdict(so)
                  tv == RenameFileTargetVerdict(to)
                  asked == <<Call("stat", other.oldUri, so)>>
                           \o (IF sv = NoError THEN <<Call("stat", other.newUri, to)>>
                                               ELSE <<>>)
                  at == [other EXCEPT !.stats = asked]
              IN  other' = IF sv # NoError
                             THEN [at EXCEPT !.error = sv, !.outcome = "thrown"]
                           ELSE IF tv # NoError
                             THEN [at EXCEPT !.error = tv, !.outcome = "thrown"]
                           ELSE [at EXCEPT !.pc = "collect"]
  /\ UNCHANGED <<trusted, hasWorkspace, fs, trash, actions, pc, idx, expandedActions,
                 refs, refIndex, edit, result, error, outcome, log, progress, ext,
                 tpIn, tpOut, hasCallback, tool, payload>>

\* lines 1544-1572: Phase 2 of renameFile; a document that does not open and a
\* provider that throws or answers nothing leave referenceEdits undefined
RenameFileCollect ==
  /\ other.pc = "collect" /\ other.outcome = "pending"
  /\ \E opened \in BOOLEAN :
     \E v \in {ProviderEdits(other.oldUri, NewBasename(other.newPath)), NoEdits} :
       LET referenceEdits == IF opened THEN v ELSE NoEdits
       IN  other' = [other EXCEPT
                      !.pc = "commit",
                      !.collected = TRUE,
                      !.referenceEdits = referenceEdits,
                      !.referencesUpdated =
                         IF referenceEdits.defined
                           THEN CountReferences(referenceEdits.entries) ELSE 0]
  /\ UNCHANGED <<trusted, hasWorkspace, fs, trash, actions, pc, idx, expandedActions,
                 refs, refIndex, edit, result, error, outcome, log, progress, ext,
                 tpIn, tpOut, hasCallback, tool, payload>>

\* lines 1576-1599: Phase 3 of renameFile
RenameFileCommit ==
  /\ other.pc = "commit" /\ other.outcome = "pending"
  /\ LET batch == RenameFileBatch(other.oldUri, other.newUri, other.referenceEdits)
         applied == ApplyFileOps(batch, other.disk)
     IN  \E success \in (IF applied.ok THEN {TRUE, FALSE} ELSE {FALSE}) :
           other' = IF success
                      THEN [other EXCEPT !.pc = "done", !.edit = batch,
                                         !.commit = "ok", !.disk = applied.disk,
                                         !.outcome = "returned"]
                      ELSE [other EXCEPT !.pc = "done", !.edit = batch,
                                         !.commit = "rejected",
                                         !.error = "EDIT_REJECTED",
                                         !.outcome = "thrown"]
  /\ UNCHANGED <<trusted, hasWorkspace, fs, trash, actions, pc, idx, expandedActions,
                 refs, refIndex, edit, result, error, outcome, log, progress, ext,
                 tpIn, tpOut, hasCallback, tool, payload>>

InitR ==
  /\ trusted \in BOOLEAN
  /\ hasWorkspace \in BOOLEAN
  /\ fs \in {DiskOf(AlwaysPresent \cup S) : S \in SUBSET (Files \ AlwaysPresent)}
  /\ trash = {}
  /\ \E pair \in RenamePairs :
       /\ actions = <<Op("rename", pair.source, pair.target)>>
       /\ other = RenameFileStart(pair, fs)
  /\ pc = "start"
  /\ idx = 0
  /\ expandedActions = <<>>
  /\ refs = <<>>
  /\ refIndex = 0
  /\ edit = <<>>
  /\ result = EmptyResult
  /\ error = NoError
  /\ outcome = "pending"
  /\ log = <<>>
  /\ progress = <<>>
  /\ ext = 0
  /\ tpIn = <<>>
  /\ tpOut = <<>>
  /\ hasCallback = FALSE
  /\ tool = "none"
  /\ payload = NoPayload

NextR ==
  \/ Enter
  \/ ExpandStep
  \/ ExpandDone
  \/ ValidateStep
  \/ StartCollect
  \/ RefOpen
  \/ RefAnswer
  \/ FinishCollect
  \/ BuildStep
  \/ Commit
  \/ RenameFileValidate
  \/ RenameFileCollect
  \/ RenameFileCommit

SpecR == InitR /\ [][NextR]_vars

-----------------------------------------------------------------------------
(* Specification of transformPath alone, over a grid of paths and globs *)

PathPool ==
  { <<"f", "i", "l", "e", ".", "j", "s">>,
    js("a"), ts("a"),
    <<"s", "/", "a", ".", "j", "s">>,
    <<"a", ".", "j", "s", ".", "t", "s">>,
    <<"a", ".", "j">>,
    <<"a", ".", "*">>,
    <<"a", ".", "j", "*">>,
    <<"a", ".", "*", "*">>,
    <<"a">> }

GlobPool ==
  { AnyJs, AnyTs,
    <<"*", ".", "j", "s">>,
    <<"*", ".", "t", "s">>,
    <<"*">>,
    <<"*", "*">>,
    <<"*", "*", "/", "*", ".", "*">>,
    <<"*", "*", "/", "*", ".", "j", "*">>,
    <<"s", "/", "*">>,
    <<"a", "?", ".", "j", "s">>,
    js("a") }

InitT ==
  /\ trusted = TRUE
  /\ hasWorkspace = TRUE
  /\ fs = DiskOf({})
  /\ trash = {}
  /\ actions = <<>>
  /\ pc = "start"
  /\ idx = 0
  /\ expandedActions = <<>>
  /\ refs = <<>>
  /\ refIndex = 0
  /\ edit = <<>>
  /\ result = EmptyResult
  /\ error = NoError
  /\ outcome = "pending"
  /\ log = <<>>
  /\ progress = <<>>
  /\ ext = 0
  /\ tpIn \in PathPool \X GlobPool \X GlobPool
  /\ tpOut = <<>>
  /\ hasCallback = TRUE
  /\ other = NoOther
  /\ tool = "none"
  /\ payload = NoPayload

\* one call transformPath(filePath, sourcePattern, targetPattern)
Transform ==
  /\ tpOut = <<>>
  /\ tpOut' = <<transformPath(tpIn[1], tpIn[2], tpIn[3])>>
  /\ UNCHANGED <<callVars, tpIn>>

NextT == Transform

SpecT == InitT /\ [][NextT]_vars


-----------------------------------------------------------------------------
(* Claims about transformPath (checked under SpecT) *)

\* the part of a glob after its final wildcard marker
LiteralSuffix(g) == SubSeq(g, LastIn(g, {"*", "?"}) + 1, Len(g))

\* a glob that is a wildcard part followed by a literal suffix, as **/*.js
SuffixShaped(g) == IsGlob(g) /\ LiteralSuffix(g) # <<>>

\* p with its ending `old` replaced by `new`
ReplaceSuffix(p, old, new) == SubSeq(p, 1, Len(p) - Len(old)) \o new

Transformed == tpOut # <<>>

\* C4: when both globs are a wildcard part followed by a literal suffix and the
\* matched path ends with the source suffix, transformPath returns the path with
\* the source suffix replaced by the target suffix (file.js -> file.ts).
C4_SuffixReplaced ==
  (/\ Transformed
   /\ SuffixShaped(tpIn[2]) /\ SuffixShaped(tpIn[3])
   /\ EndsWith(tpIn[1], LiteralSuffix(tpIn[2])))
  => tpOut[1] = ReplaceSuffix(tpIn[1], LiteralSuffix(tpIn[2]), LiteralSuffix(tpIn[3]))

\* C6: when the matched path does not end with the source suffix, or one of the
\* globs is not a wildcard part followed by a literal suffix, transformPath
\* returns the path unchanged, and applying it again to that result returns it
\* once more.
C6_UnchangedOutsideShape ==
  (/\ Transformed
   /\ \/ ~EndsWith(tpIn[1], LiteralSuffix(tpIn[2]))
      \/ ~SuffixShaped(tpIn[2])
      \/ ~SuffixShaped(tpIn[3]))
  => /\ tpOut[1] = tpIn[1]
     /\ transformPath(tpOut[1], tpIn[2], tpIn[3]) = tpOut[1]


-----------------------------------------------------------------------------
(* Claims about one call of performBulkOperations (checked under Spec) *)

\* a delete, a copy or a commit of the edit batch was issued
IsEffect(e) == e.call \in {"delete", "copy", "applyEdit"}

NoEffects == \A i \in 1..Len(log) : ~IsEffect(log[i])

NoStats == \A i \in 1..Len(log) : log[i].call # "stat"

\* no capability failed for a reason of its own (permissions, search failure)
\* and the commit was not refused
NoFault == \A i \in 1..Len(log) : log[i].out \in {"ok", "FileNotFound", "FileExists"}

PreMutationKinds ==
  {"UNTRUSTED", "NO_WORKSPACE", "INVALID_INPUT", "FILE_NOT_FOUND", "ALREADY_EXISTS"}

\* C1: every delete, copy and commit is preceded, for every expanded action, by
\* a stat of its source that found the file and (rename/move/duplicate) a stat
\* of its target that found nothing; a call that threw UNTRUSTED, NO_WORKSPACE,
\* FILE_NOT_FOUND or ALREADY_EXISTS issued no delete, copy or commit.
C1_ValidationBeforeEffects ==
  /\ \A m \in 1..Len(log) :
       IsEffect(log[m]) =>
         \A k \in 1..Len(expandedActions) :
           LET a == expandedActions[k]
           IN  /\ \E i \in 1..(m - 1) : log[i] = Call("stat", a.resolvedSource, "ok")
               /\ a.type \in FileOps =>
                    \E i \in 1..(m - 1) :
                      log[i] = Call("stat", a.resolvedTarget, "FileNotFound")
  /\ (outcome = "thrown"
      /\ error \in {"UNTRUSTED", "NO_WORKSPACE", "FILE_NOT_FOUND", "ALREADY_EXISTS"})
       => NoEffects

\* C1 witness: two actions were validated and the copy of a duplicate was made
C1_Witness ==
  /\ Len(expandedActions) = 2
  /\ \E m \in 1..Len(log) : log[m].call = "copy" /\ log[m].out = "ok"

\* an action with literal paths and all the params its type needs
WellFormedLiteral(a) ==
  \/ a.type = "delete" /\ Truthy(a.path) /\ ~IsGlob(a.path)
  \/ /\ a.type \in FileOps
     /\ Truthy(a.source) /\ Truthy(a.target)
     /\ ~IsGlob(a.source) /\ ~IsGlob(a.target)

\* C2: a call on a well-formed batch without wildcards ends either returning a
\* result whose entries all have success:true after an accepted commit, or
\* throwing a pre-mutation error kind having issued no delete, copy or commit.
\* (Stated for the runs in which no other actor changes the disk and no
\* capability fails on its own: the claim fails already there.)
C2_AllOrNothing ==
  (/\ outcome # "pending"
   /\ \A k \in 1..Len(actions) : WellFormedLiteral(actions[k])
   /\ ext = 0 /\ NoFault)
  => \/ /\ outcome = "returned"
        /\ \A k \in 1..Len(result.operations) : result.operations[k].success
        /\ log[Len(log)] = Call("applyEdit", Undef, "ok")
     \/ /\ outcome = "thrown"
        /\ error \in PreMutationKinds
        /\ NoEffects

IsRename(a) == a.type \in {"rename", "move"} /\ ~IsGlob(a.source)

\* on the present disk: source there, target free
ValidNow(a) ==
  Exists(JoinPath(root, a.source)) /\ ~Exists(JoinPath(root, a.target))

\* on the present disk: source there, target taken
TargetTakenNow(a) ==
  Exists(JoinPath(root, a.source)) /\ Exists(JoinPath(root, a.target))

\* a batch of two renames, one valid and one whose target exists, in either
\* order, in a trusted workspace, on a disk no one else touches and whose
\* stats answer
C3_Scenario ==
  /\ Len(actions) = 2
  /\ IsRename(actions[1]) /\ IsRename(actions[2])
  /\ trusted /\ hasWorkspace
  /\ ext = 0 /\ error # "FS_ERROR"
  /\ \/ ValidNow(actions[1]) /\ TargetTakenNow(actions[2])
     \/ ValidNow(actions[2]) /\ TargetTakenNow(actions[1])

\* C3: a batch of one valid rename and one rename whose target exists never
\* gets past validation, whichever comes first: the call can only throw
\* ALREADY_EXISTS, nothing is added to the edit batch and no commit is issued.
C3_NoPartialCommit ==
  C3_Scenario =>
    /\ pc \in {"start", "expand", "validate"}
    /\ outcome # "returned"
    /\ outcome = "thrown" => error = "ALREADY_EXISTS"
    /\ edit = <<>>
    /\ NoEffects

\* C3 witness: the valid rename came first, and the call threw ALREADY_EXISTS
C3_Witness ==
  /\ C3_Scenario
  /\ ValidNow(actions[1]) /\ TargetTakenNow(actions[2])
  /\ outcome = "thrown" /\ error = "ALREADY_EXISTS"

\* a.ts for a.js
TsFor(p) == ReplaceSuffix(p, <<".", "j", "s">>, <<".", "t", "s">>)

\* C5: the action rename **/*.js -> **/*.ts expands into one rename x.js -> x.ts
\* per matched file; when no x.ts exists and the disk is left alone, the call
\* passes validation and returns one successful rename x.js -> x.ts per match.
C5_WildcardRename ==
  actions = <<Op("rename", AnyJs, AnyTs)>> =>
    /\ \A k \in 1..Len(expandedActions) :
         LET a == expandedActions[k]
         IN  /\ a.type = "rename"
             /\ EndsWith(a.source, <<".", "j", "s">>)
             /\ a.resolvedSource = JoinPath(root, a.source)
             /\ a.target = TsFor(a.source)
             /\ a.resolvedTarget = JoinPath(root, TsFor(a.source))
    /\ (/\ ext = 0 /\ NoFault /\ outcome = "thrown" /\ pc = "validate"
        /\ \A k \in 1..Len(expandedActions) :
             ~Exists(JoinPath(root, TsFor(expandedActions[k].source))))
         => FALSE
    /\ outcome = "returned" =>
         /\ Len(result.operations) = Len(expandedActions)
         /\ \A k \in 1..Len(result.operations) :
              result.operations[k] =
                [type |-> "rename", source |-> expandedActions[k].source,
                 target |-> TsFor(expandedActions[k].source),
                 success |-> TRUE, error |-> NoError]

\* C7: an untrusted workspace makes the call throw UNTRUSTED, also when there is
\* no workspace folder; a trusted one without folder makes it throw
\* NO_WORKSPACE; in both cases no capability was called, no reference promise
\* started and no progress message emitted.
C7_EntryChecks ==
  LET begun == pc # "start" \/ outcome # "pending"
      silent == log = <<>> /\ refs = <<>> /\ progress = <<>>
  IN  /\ (begun /\ ~trusted) =>
           outcome = "thrown" /\ error = "UNTRUSTED" /\ silent
      /\ (begun /\ trusted /\ ~hasWorkspace) =>
           outcome = "thrown" /\ error = "NO_WORKSPACE" /\ silent

\* C7 witness: both checks would fail, and UNTRUSTED was thrown
C7_Witness ==
  ~trusted /\ ~hasWorkspace /\ outcome = "thrown" /\ error = "UNTRUSTED"

\* the Phase 1 loop ran over the whole argument and the empty check was made
ExpansionOver == pc # "start" /\ (pc = "expand" => idx > Len(actions) /\ outcome # "pending")

\* C8: when the expansion of the whole batch is empty the call throws
\* FILE_NOT_FOUND with no stat, delete, copy or commit issued; no later phase
\* is entered, and nothing is returned, with an empty expansion.
C8_EmptyExpansion ==
  (ExpansionOver /\ Len(expandedActions) = 0) =>
    /\ pc = "expand"
    /\ outcome = "thrown" /\ error = "FILE_NOT_FOUND"
    /\ NoStats /\ NoEffects

\* C8 witness: a wildcard action matched nothing and FILE_NOT_FOUND was thrown
C8_Witness ==
  /\ ExpansionOver /\ Len(expandedActions) = 0
  /\ \E k \in 1..Len(actions) : ExpandKind(actions[k]) \in {"deleteGlob", "opGlob"}
  /\ outcome = "thrown" /\ error = "FILE_NOT_FOUND"

\* what validation has to report for an action on the present disk
Violation(a) ==
  IF ~Exists(a.resolvedSource) THEN "FILE_NOT_FOUND"
  ELSE IF a.type \in FileOps /\ Exists(a.resolvedTarget) THEN "ALREADY_EXISTS"
  ELSE NoError

\* C9: on a disk no one else touches and whose stats answer, validation throws
\* exactly the error of the first expanded action that violates (missing source:
\* FILE_NOT_FOUND, before existing target: ALREADY_EXISTS), and is passed only
\* if no expanded action violates.
C9_FirstViolation ==
  (ext = 0 /\ error # "FS_ERROR") =>
    /\ pc = "validate" =>
         /\ \A k \in 1..(idx - 1) : Violation(expandedActions[k]) = NoError
         /\ outcome = "thrown" =>
              /\ error # NoError
              /\ error = Violation(expandedActions[idx])
         /\ (outcome = "pending" /\ idx > Len(expandedActions)) =>
              \A k \in 1..Len(expandedActions) : Violation(expandedActions[k]) = NoError
    /\ pc = "collect" =>
         \A k \in 1..Len(expandedActions) : Violation(expandedActions[k]) = NoError

\* C9 witness: the second expanded action lacks its source while its target
\* exists, and FILE_NOT_FOUND was thrown
C9_Witness ==
  /\ ext = 0 /\ pc = "validate" /\ outcome = "thrown" /\ idx = 2
  /\ expandedActions[2].type \in FileOps
  /\ ~Exists(expandedActions[2].resolvedSource)
  /\ Exists(expandedActions[2].resolvedTarget)
  /\ error = "FILE_NOT_FOUND"

\* number of expanded actions the Phase 4 loop has processed
Processed ==
  IF pc = "build" THEN idx - 1
  ELSE IF pc = "apply" THEN Len(expandedActions)
  ELSE 0

IsDeleteOrCopy(e) == e.call \in {"delete", "copy"}

\* positions (in expanded order) of the processed delete and duplicate actions
RECURSIVE ImmediateAt(_)
ImmediateAt(n) ==
  IF n = 0 THEN <<>>
  ELSE IF expandedActions[n].type \in {"delete", "duplicate"}
    THEN Append(ImmediateAt(n - 1), n)
    ELSE ImmediateAt(n - 1)

CountOf(ops, b) == Cardinality({k \in 1..Len(ops) : ops[k].success = b})

CallsWith(name, out) == {m \in 1..Len(log) : log[m].call = name /\ log[m].out = out}

\* the rename operations placed in the edit batch, in order
IsRenameOp(o) == o.op = "rename"
RenameOps == SelectSeq(edit, IsRenameOp)

ApplyCalls == {m \in 1..Len(log) : log[m].call = "applyEdit"}

\* the operation edit.renameFile(source, target, {overwrite: false}) adds
RenameOpOf(a) ==
  [op |-> "rename", from |-> a.resolvedSource, to |-> a.resolvedTarget,
   overwrite |-> FALSE]

IsReplaceOp(o) == o.op = "replace"

\* C12: the edit batch is committed at most once, as the last capability call,
\* after the Phase 4 loop has processed every expanded action, and never when
\* the call ended before that loop; the batch holds exactly the renames and
\* moves processed so far, in order, together with their merged reference
\* edits; with the disk left alone, after an accepted commit every rename and
\* move is applied, and otherwise none is (no file holds another file's
\* content except the targets of copies).
C12_SingleCommit ==
  /\ Cardinality(ApplyCalls) <= 1
  /\ ApplyCalls # {} =>
       /\ ApplyCalls = {Len(log)}
       /\ pc = "apply"
       /\ Len(result.operations) = Len(expandedActions)
  /\ pc \in {"start", "expand", "validate", "collect"} => ApplyCalls = {}
  /\ pc \in {"build", "apply"} =>
       LET w == SelectWanting(SubSeq(expandedActions, 1, Processed))
       IN  /\ RenameOps = [k \in 1..Len(w) |-> RenameOpOf(w[k])]
           /\ Len(SelectSeq(edit, IsReplaceOp)) = result.totalReferencesUpdated
  /\ ext = 0 =>
       IF CallsWith("applyEdit", "ok") # {}
         THEN \A k \in 1..Len(RenameOps) :
                /\ RenameOps[k].from \notin DOMAIN fs
                /\ RenameOps[k].to \in DOMAIN fs
                /\ fs[RenameOps[k].to] = AsRelativePath(RenameOps[k].from)
         ELSE \A uri \in DOMAIN fs :
                \/ fs[uri] = AsRelativePath(uri)
                \/ \E n \in CallsWith("copy", "ok") : log[n].uri = uri

\* C12 witness: two renames were committed in one batch and both are applied
C12_Witness ==
  /\ outcome = "returned" /\ ext = 0
  /\ Len(RenameOps) = 2
  /\ \A k \in 1..2 : RenameOps[k].to \in DOMAIN fs /\ RenameOps[k].from \notin DOMAIN fs
  /\ log[Len(log)] = Call("applyEdit", Undef, "ok")

\* positions in the log of the deletes and copies that failed
FailedCalls ==
  {m \in 1..Len(log) : log[m].call \in {"delete", "copy"} /\ log[m].out # "ok"}

\* entry e of the result reports the failure of the capability call c
Reports(e, c) ==
  /\ ~e.success /\ e.error = c.out
  /\ IF c.call = "delete"
       THEN e.type = "delete" /\ JoinPath(root, e.source) = c.uri
       ELSE e.type = "duplicate" /\ JoinPath(root, e.target) = c.uri

\* C13 as stated: a call in which a delete or copy failed ends by returning a
\* result that contains the failed entry.
C13_FailuresReturned ==
  (outcome # "pending" /\ FailedCalls # {}) =>
    /\ outcome = "returned"
    /\ \A m \in FailedCalls :
         \E k \in 1..Len(result.operations) : Reports(result.operations[k], log[m])

\* C13 amended: a delete or copy that fails never makes the call throw; the
\* failure is recorded in result.operations and the loop goes on, so a call
\* that returns delivers every failed entry.  After such a failure the call can
\* still end with EDIT_REJECTED, thrown by a rejected commit, and then no
\* result is delivered.
C13_FailuresRecorded ==
  /\ pc = "build" => outcome = "pending"
  /\ pc \in {"build", "apply"} =>
       \A m \in FailedCalls :
         \E k \in 1..Len(result.operations) : Reports(result.operations[k], log[m])
  /\ (outcome = "thrown" /\ FailedCalls # {}) =>
       /\ error = "EDIT_REJECTED"
       /\ log[Len(log)] = Call("applyEdit", Undef, "rejected")

\* C13 witness: a copy failed and the call returned the result with its entry
C13_Witness ==
  /\ outcome = "returned"
  /\ \E m \in FailedCalls : log[m].call = "copy"
  /\ result.failedCount > 0

\* C14: a call that throws before any delete, copy or commit was issued throws
\* an error of kind UNTRUSTED, NO_WORKSPACE, INVALID_INPUT, FILE_NOT_FOUND or
\* ALREADY_EXISTS, also when a stat fails for another reason than "not found"
\* or the search fails.
C14_TypedPreMutationErrors ==
  (outcome = "thrown" /\ NoEffects) => error \in PreMutationKinds

\* a delete without a path or with an empty one, or an action of unknown type
Malformed(a) ==
  \/ a.type = "delete" /\ ~Truthy(a.path)
  \/ a.type \notin {"delete"} \cup FileOps

\* C15: in a trusted workspace, a call on a batch that contains a malformed
\* action ends by throwing INVALID_INPUT, having issued no delete, copy or
\* commit.  (Stated for the runs in which no capability fails on its own.)
C15_MalformedRejected ==
  (/\ outcome # "pending" /\ trusted /\ hasWorkspace /\ NoFault
   /\ \E k \in 1..Len(actions) : Malformed(actions[k]))
  => (outcome = "thrown" /\ error = "INVALID_INPUT" /\ NoEffects)

\* the path an entry of the result names as source for an expanded action
EntrySource(a) == IF a.type = "delete" THEN a.path ELSE a.source

\* the resolver gave no text edit for any rename or move of the call
NoImporters ==
  \A k \in 1..Len(refs) : ~refs[k].value.defined \/ refs[k].value.entries = <<>>

\* C16: on a normal return, operations has one entry per expanded action, in
\* the order of the expanded actions, naming its type, source and target;
\* successCount is the number of entries with success:true, failedCount the
\* number with success:false, and the two add up to the number of expanded
\* actions.  The single action rename a.js -> a.ts with no edits from the
\* resolver returns exactly {1, 0, 0, [{rename, a.js, a.ts, success:true}]}.
C16_ResultShape ==
  outcome = "returned" =>
    LET ops == result.operations
    IN  /\ Len(ops) = Len(expandedActions)
        /\ \A k \in 1..Len(ops) :
             /\ ops[k].type = expandedActions[k].type
             /\ ops[k].source = EntrySource(expandedActions[k])
             /\ ops[k].target = expandedActions[k].target
        /\ result.successCount = CountOf(ops, TRUE)
        /\ result.failedCount = CountOf(ops, FALSE)
        /\ result.successCount + result.failedCount = Len(expandedActions)
        /\ (actions = <<Op("rename", js("a"), ts("a"))>> /\ NoImporters) =>
             result = [successCount |-> 1, failedCount |-> 0,
                       totalReferencesUpdated |-> 0,
                       operations |-> <<[type |-> "rename", source |-> js("a"),
                                         target |-> ts("a"), success |-> TRUE,
                                         error |-> NoError]>>]

\* C16 witness: the single rename returned, the resolver having given no edits
C16_Witness ==
  /\ outcome = "returned"
  /\ actions = <<Op("rename", js("a"), ts("a"))>>
  /\ NoImporters
  /\ result.successCount = 1

\* number of text edits in the entries of one WorkspaceEdit
RECURSIVE TextEditCount(_)
TextEditCount(entries) ==
  IF entries = <<>> THEN 0
  ELSE Len(Head(entries)[2]) + TextEditCount(Tail(entries))

\* number of text edits the resolver returned for promises 1..n
RECURSIVE ResolverEdits(_)
ResolverEdits(n) ==
  IF n = 0 THEN 0
  ELSE ResolverEdits(n - 1)
       + (IF refs[n].value.defined THEN TextEditCount(refs[n].value.entries) ELSE 0)

\* C17: on a normal return, totalReferencesUpdated is the number of text edits
\* the resolver returned for the renames and moves of the call, and each of
\* them is a replace operation of the batch that was committed.  Renaming a.js
\* to a.ts when the resolver returns one edit in each of two importing files
\* gives totalReferencesUpdated = 2 with both edits in the committed batch.
C17_ReferencesCounted ==
  outcome = "returned" =>
    /\ result.totalReferencesUpdated = ResolverEdits(Len(refs))
    /\ log[Len(log)] = Call("applyEdit", Undef, "ok")
    /\ \A k \in 1..Len(refs) :
         refs[k].value.defined =>
           \A i \in 1..Len(refs[k].value.entries) :
             LET entry == refs[k].value.entries[i]
             IN  \A j \in 1..Len(entry[2]) :
                   \E n \in 1..Len(edit) :
                     edit[n] = [op |-> "replace", uri |-> entry[1],
                                range |-> entry[2][j].range,
                                newText |-> entry[2][j].newText]
    /\ (/\ actions = <<Op("rename", js("a"), ts("a"))>>
        /\ refs[1].value = ProviderEdits(JoinPath(root, js("a")), <<"a">>))
         => /\ result.totalReferencesUpdated = 2
            /\ \A f \in {<<"m", "1">>, <<"m", "2">>} :
                 \E n \in 1..Len(edit) :
                   edit[n].op = "replace" /\ edit[n].uri = JoinPath(root, f)

\* C17 witness: a.js renamed, two importing files, both edits committed
C17_Witness ==
  /\ outcome = "returned"
  /\ actions = <<Op("rename", js("a"), ts("a"))>>
  /\ refs[1].value = ProviderEdits(JoinPath(root, js("a")), <<"a">>)
  /\ result.totalReferencesUpdated = 2

\* number of input actions the Phase 1 loop has gone through
Expanded == IF pc = "expand" THEN idx - 1 ELSE IF pc = "start" THEN 0 ELSE Len(actions)

\* the disk is still as it was when the call started
DiskUntouched == ext = 0 /\ pc \in {"start", "expand", "validate", "collect"}

IsDeleteAction(a) == a.type = "delete"

\* number of deletes the first n input actions stand for
RECURSIVE DeletesOf(_)
DeletesOf(n) ==
  IF n = 0 THEN 0
  ELSE DeletesOf(n - 1)
       + (IF ExpandKind(actions[n]) = "deleteGlob"
            THEN Cardinality(Matches(actions[n].path))
          ELSE IF ExpandKind(actions[n]) = "deleteOne" THEN 1
          ELSE 0)

\* C18: every expanded delete names a concrete relative path, without
\* wildcard, and is resolved to that path joined to the root; a delete with a
\* wildcard stands for one expanded delete per matched file and a delete
\* without for exactly one.  delete *.log matching two files, with no failure,
\* returns successCount 2 with both files off the disk and in the trash.
C18_DeleteExpansion ==
  /\ \A k \in 1..Len(expandedActions) :
       LET a == expandedActions[k]
       IN  a.type = "delete" =>
             /\ ~IsGlob(a.path)
             /\ a.resolvedSource = JoinPath(root, a.path)
             /\ a.resolvedTarget = Undef
  /\ DiskUntouched =>
       /\ Len(SelectSeq(expandedActions, IsDeleteAction)) = DeletesOf(Expanded)
       /\ \A n \in 1..Expanded :
            ExpandKind(actions[n]) = "deleteGlob" =>
              \A uri \in Matches(actions[n].path) :
                \E k \in 1..Len(expandedActions) :
                  expandedActions[k].type = "delete"
                  /\ expandedActions[k].resolvedSource = uri
  /\ (/\ actions = <<Delete(AllLogs)>> /\ Len(expandedActions) = 2
      /\ outcome = "returned" /\ ext = 0 /\ NoFault)
       => /\ result.successCount = 2 /\ result.failedCount = 0
          /\ \A f \in {logf("c"), logf("d")} :
               /\ JoinPath(root, f) \notin DOMAIN fs
               /\ \E e \in trash : e[1] = JoinPath(root, f)

\* C18 witness: delete *.log matched two files and returned successCount 2
C18_Witness ==
  /\ actions = <<Delete(AllLogs)>>
  /\ outcome = "returned"
  /\ result.successCount = 2
  /\ Cardinality(trash) = 2

\* the uris of S in ascending order of localeCompare
SortedSeq(S) ==
  CHOOSE q \in Orders(S) :
    \A i, j \in 1..Cardinality(S) : i < j => PathLeq(q[i], q[j], 1)

\* the sources the first n input actions stand for, in order
RECURSIVE SourcesOf(_)
SourcesOf(n) ==
  IF n = 0 THEN <<>>
  ELSE LET a == actions[n]
           kind == ExpandKind(a)
           sorted == SortedSeq(Matches(SearchPattern(a)))
       IN  SourcesOf(n - 1) \o
             (IF kind \in {"deleteGlob", "opGlob"}
                THEN [k \in 1..Len(sorted) |-> AsRelativePath(sorted[k])]
              ELSE IF kind = "deleteOne" THEN <<a.path>>
              ELSE IF kind = "opOne" THEN <<a.source>>
              ELSE <<>>)

C20_NoOverwrite ==
  [][ext' = ext =>
       /\ \A uri \in (DOMAIN fs) \cap (DOMAIN fs') : fs'[uri] = fs[uri]
       /\ \A n \in 1..Len(edit') :
            edit'[n].op = "rename" => ~edit'[n].overwrite
       /\ Len(log') > Len(log) =>
            LET c == log'[Len(log')]
            IN  /\ (c.call = "copy" /\ c.uri \in DOMAIN fs) =>
                     /\ c.out # "ok"
                     /\ result'.failedCount = result.failedCount + 1
                     /\ ~result'.operations[Len(result'.operations)].success
                /\ (/\ c.call = "applyEdit"
                    /\ \E n \in 1..Len(edit) :
                         edit[n].op = "rename" /\ edit[n].to \in DOMAIN fs) =>
                     outcome' = "thrown" /\ error' = "EDIT_REJECTED"
    ]_vars

\* C20 witness: a.ts was created by another actor after validation; the copy
\* onto it failed and its content is still the other actor's
C20_Witness ==
  /\ \E m \in FailedCalls :
       log[m] = Call("copy", JoinPath(root, ts("a")), "FileExists")
  /\ JoinPath(root, ts("a")) \in DOMAIN fs
  /\ fs[JoinPath(root, ts("a"))] = ExtContent
  /\ result.failedCount = 1

\* C21: whenever a step of the call takes a file off the disk, the file with
\* its content is in the trash afterwards, unless the step is the commit and
\* the file is the source of a rename or move of the batch (which puts it at
\* its target); nothing ever leaves the trash.
C21_RecoverableDelete ==
  [][ext' = ext =>
       /\ trash \subseteq trash'
       /\ \A uri \in (DOMAIN fs) \ (DOMAIN fs') :
            \/ <<uri, fs[uri]>> \in trash'
            \/ /\ pc' = "apply"
               /\ \E n \in 1..Len(edit) :
                    /\ edit[n].op = "rename" /\ edit[n].from = uri
                    /\ edit[n].to \in DOMAIN fs' /\ fs'[edit[n].to] = fs[uri]
    ]_vars

\* C21 witness: a delete succeeded; the file is off the disk and in the trash
C21_Witness ==
  /\ \E m \in CallsWith("delete", "ok") :
       /\ log[m].uri \notin DOMAIN fs
       /\ <<log[m].uri, AsRelativePath(log[m].uri)>> \in trash
  /\ outcome = "returned"

\* the phase a capability call belongs to
CallPhase(c) ==
  CASE c.call = "findFiles" -> 1
    [] c.call = "stat" -> 2
    [] c.call \in {"delete", "copy"} -> 4
    [] c.call = "applyEdit" -> 5

\* the messages a callback has received when the call is in phase pc
ProgressUpTo ==
  LET n == Len(expandedActions)
      all == <<Msg("Expanding file patterns...", 0), Msg("Processing", n),
               Msg("Validating all operations...", 0),
               Msg("Collecting references", n),
               Msg("Building atomic transaction...", 0),
               Msg("Applying changes...", 0)>>
      upTo == CASE pc = "start" -> 0 [] pc = "expand" -> 1 [] pc = "validate" -> 3
                [] pc = "collect" -> 4 [] pc = "build" -> 5 [] pc = "apply" -> 6
  IN  SubSeq(all, 1, upTo)

RenameBefore(n) ==
  LET at == {r \in 1..(n - 1) : edit[r].op = "rename"}
  IN  IF at = {} THEN 0 ELSE CHOOSE r \in at : \A q \in at : q <= r

\* the rename and move actions among the expanded actions, in order
IsRenameOrMove(a) == a.type \in {"rename", "move"}
RenamesAndMoves == SelectSeq(expandedActions, IsRenameOrMove)

RenamesUpTo(n) == Cardinality({r \in 1..n : edit[r].op = "rename"})

\* C24: a reference request that fails (the document cannot be opened, the
\* resolver throws or returns nothing) never makes the call throw; the rename
\* or move it was made for is still added to the batch, with no reference edit
\* after it, and recorded with success:true; totalReferencesUpdated counts
\* only the edits of the requests that were answered, which are merged as
\* they would be without the failure.
C24_ResolverFailure ==
  /\ pc = "collect" => outcome = "pending"
  /\ pc \in {"build", "apply"} =>
       /\ \A n \in 1..Len(edit) :
            (edit[n].op = "rename" /\ ~refs[RenamesUpTo(n)].value.defined) =>
              (n = Len(edit) \/ edit[n + 1].op = "rename")
       /\ \A j \in 1..Len(result.operations) :
            result.operations[j].type \in {"rename", "move"} =>
              result.operations[j].success
       /\ Len(RenameOps) =
            Len(SelectSeq(SubSeq(expandedActions, 1, Processed), IsRenameOrMove))
       /\ result.totalReferencesUpdated = ResolverEdits(Len(RenameOps))
       /\ Len(SelectSeq(edit, IsReplaceOp)) = ResolverEdits(Len(RenameOps))

\* C24 witness: of two renames the first got no answer and the second did;
\* both are in the committed batch and recorded as successes
C24_Witness ==
  /\ outcome = "returned"
  /\ Len(refs) = 2
  /\ ~refs[1].value.defined /\ refs[2].value.defined
  /\ Len(RenameOps) = 2
  /\ result.successCount = 2
  /\ result.totalReferencesUpdated = 1

\* C25: there is one reference request per expanded rename or move and none
\* for the deletes and duplicates; each request asks the resolver at most
\* once, and only after the document was opened; while the requests are
\* collected nothing is deleted, copied, added to the batch or committed, and
\* the steps of the collection leave the disk, the trash, the batch and the
\* result as they are.
C25_ReadOnlyCollection ==
  /\ [](pc \in {"collect", "build", "apply"} =>
          /\ Len(refs) = Len(RenamesAndMoves)
          /\ \A k \in 1..Len(refs) :
               /\ refs[k].value.defined => refs[k].requested
               /\ refs[k].requested => refs[k].stage \in {"requested", "settled"}
               /\ refs[k].stage = "opening" => ~refs[k].requested)
  /\ [](pc = "collect" =>
          NoEffects /\ edit = <<>> /\ trash = {} /\ result = EmptyResult)
  /\ [][(pc = "collect" /\ ext' = ext) =>
          (fs' = fs /\ trash' = trash /\ edit' = edit /\ log' = log
           /\ result' = result)]_vars

\* C25 witness: a rename and a duplicate were validated; one request was
\* made, for the rename, and it has been answered
C25_Witness ==
  /\ pc = "collect"
  /\ Len(expandedActions) = 2
  /\ \E k \in 1..2 : expandedActions[k].type = "duplicate"
  /\ Len(refs) = 1
  /\ refs[1].requested /\ refs[1].stage = "settled"

\* C26: every expanded action is resolved: a rename, move or duplicate has
\* both its resolved source and its resolved target, a delete has its
\* resolved source (and no target), and the expanded actions have no other
\* type; so no action enters validation with one of the two paths missing.
C26_FullyResolved ==
  \A k \in 1..Len(expandedActions) :
    LET a == expandedActions[k]
    IN  /\ a.type \in {"delete"} \cup FileOps
        /\ a.resolvedSource # Undef
        /\ a.type \in FileOps =>
             /\ a.resolvedTarget # Undef
             /\ a.source # Undef /\ a.target # Undef
             /\ a.resolvedSource = JoinPath(root, a.source)
             /\ a.resolvedTarget = JoinPath(root, a.target)
        /\ a.type = "delete" => a.resolvedTarget = Undef

\* C26 witness: a duplicate and the renames of a wildcard entered validation
C26_Witness ==
  /\ pc = "validate" /\ idx = 1
  /\ Len(expandedActions) = 3
  /\ expandedActions[1].type = "duplicate"
  /\ expandedActions[2].type = "rename" /\ expandedActions[3].type = "rename"

\* the capability call the Phase 4 loop makes for a delete or duplicate
ImmediateCall(a) ==
  IF a.type = "delete" THEN [call |-> "delete", uri |-> a.resolvedSource]
  ELSE [call |-> "copy", uri |-> a.resolvedTarget]

C28_RunsToCompletion == (pc = "collect") ~> (outcome # "pending")

\* C28 witness: validation passed, a reference request and a delete failed,
\* and the call returned
C28_Witness ==
  /\ outcome = "returned"
  /\ \E k \in 1..Len(refs) : ~refs[k].value.defined
  /\ \E m \in FailedCalls : log[m].call = "delete"

\* number of expanded actions an invocation's Phase 4 loop has processed
ProcessedIn(f) ==
  IF f.pc = "build" THEN f.idx - 1
  ELSE IF f.pc = "apply" THEN Len(f.expandedActions)
  ELSE 0

\* the reference edits an invocation's requests were answered with
RECURSIVE AnsweredEdits(_)
AnsweredEdits(rs) ==
  IF rs = <<>> THEN <<>>
  ELSE (IF Head(rs).value.defined THEN Replacements(Head(rs).value.entries) ELSE <<>>)
       \o AnsweredEdits(Tail(rs))

\* the batch and the result of an invocation hold its own work only
OwnWork(f) ==
  LET done == SubSeq(f.expandedActions, 1, ProcessedIn(f))
      w == SelectWanting(done)
      ops == f.result.operations
      answered == AnsweredEdits(f.refs)
  IN  /\ SelectSeq(f.edit, IsRenameOp) = [k \in 1..Len(w) |-> RenameOpOf(w[k])]
      /\ \A n \in 1..Len(f.edit) :
           f.edit[n].op = "replace" =>
             \E j \in 1..Len(answered) : answered[j] = f.edit[n]
      /\ Len(ops) = Len(done)
      /\ \A k \in 1..Len(ops) :
           /\ ops[k].type = done[k].type
           /\ ops[k].source = EntrySource(done[k])
           /\ ops[k].target = done[k].target
      /\ f.result.successCount + f.result.failedCount = Len(done)
      /\ f.result.totalReferencesUpdated = Len(SelectSeq(f.edit, IsReplaceOp))
      /\ Cardinality({m \in 1..Len(f.log) : f.log[m].call = "applyEdit"})
           = (IF f.pc = "apply" THEN 1 ELSE 0)

\* the files an invocation's expanded actions start from
FrameSources(f) ==
  {f.expandedActions[k].resolvedSource : k \in 1..Len(f.expandedActions)}

\* no rename or reference edit of g's files stands in f's batch, and no entry
\* of f's result names a file only g works on
Apart(f, g) ==
  /\ \A n \in 1..Len(f.edit) :
       /\ f.edit[n].op = "rename" =>
            f.edit[n].from \notin FrameSources(g) \ FrameSources(f)
       /\ f.edit[n].op = "replace" =>
            \A u \in FrameSources(g) \ FrameSources(f) :
              f.edit[n].range # AsRelativePath(u)
  /\ \A k \in 1..Len(f.result.operations) :
       \A u \in FrameSources(g) \ FrameSources(f) :
         f.result.operations[k].source # AsRelativePath(u)

\* C29: when two invocations overlap, the batch of each holds exactly the
\* renames and moves its own loop has processed, with reference edits from its
\* own requests only, and the result of each has one entry per action of its
\* own that was processed, counted once; each commits its own batch at most
\* once.  Nothing of the other invocation stands in either.
C29_OwnBatchAndResult ==
  other.pc # "none" =>
    /\ OwnWork(Frame(3 - other.id)) /\ OwnWork(other)
    /\ Apart(Frame(3 - other.id), other) /\ Apart(other, Frame(3 - other.id))

\* C29 witness: one invocation has committed its batch with a rename in it
\* while the other, working on another file, is suspended inside its build
\* loop with a rename in its batch
C29_Witness ==
  /\ other.pc = "build" /\ outcome = "returned"
  /\ RenameOps # <<>> /\ SelectSeq(other.edit, IsRenameOp) # <<>>
  /\ RenameOps[1].from # SelectSeq(other.edit, IsRenameOp)[1].from
  /\ result.successCount = 1 /\ other.result.successCount = 1

\* C30: a tool's invoke always comes to return a payload once the call it
\* awaits has ended, and returns none before; the payload has status "error"
\* with the message of the thrown error exactly when performBulkOperations
\* threw, and status "success" with the counts and operations of the result
\* exactly when it returned, whether or not operations failed.
C30_AdapterPayload ==
  /\ (tool \in ToolNames /\ outcome # "pending" /\ payload.status = "none")
       => ENABLED ToolReturn
  /\ payload.status \in {"none", "success", "error"}
  /\ payload.status # "none" => outcome # "pending"
  /\ payload.status = "error" =>
       /\ outcome = "thrown"
       /\ error \in ErrorInstances
       /\ payload.message = <<"message of", error>>
  /\ payload.status = "success" =>
       /\ outcome = "returned"
       /\ payload.operations = result.operations
       /\ IF tool = "BulkDeleteTool"
            THEN /\ payload.deletedCount = result.successCount
                 /\ payload.failedCount = result.failedCount
            ELSE /\ payload.appliedEdits = result.successCount
                 /\ payload.failedEdits = result.failedCount
                 /\ payload.totalReferencesUpdated = result.totalReferencesUpdated

\* C30 witness: the delete tool returns status "success" for a result in which
\* one delete succeeded and one failed
C30_Witness ==
  /\ tool = "BulkDeleteTool" /\ payload.status = "success"
  /\ payload.failedCount = 1 /\ payload.deletedCount = 1

\* an action passes validation on its own: its source is on the disk and, for
\* a rename, move or duplicate, its target is not
PassesAlone(a, disk) ==
  /\ SourceVerdict(a, StatOn(disk, a.resolvedSource)) = NoError
  /\ TargetVerdict(a, StatOn(disk, a.resolvedTarget)) = NoError

\* the orders a sequence of n elements can be put in
Reorderings(n) ==
  {p \in [1..n -> 1..n] : \A i, j \in 1..n : i # j => p[i] # p[j]}

SelfTargeted ==
  {k \in 1..Len(expandedActions) :
     /\ expandedActions[k].type \in FileOps
     /\ expandedActions[k].resolvedSource = expandedActions[k].resolvedTarget}

\* C32: with the disk left alone, no rename enters the batch and no copy is
\* issued with the source as its target: the call never gets past the
\* validation of an expanded action whose target is its source, and when
\* validation stops at such an action the error is FILE_NOT_FOUND or
\* ALREADY_EXISTS.
C32_NoSelfTarget ==
  ext = 0 =>
    /\ \A n \in 1..Len(edit) : edit[n].op = "rename" => edit[n].from # edit[n].to
    /\ \A k \in SelfTargeted :
         /\ pc \in {"start", "expand", "validate"}
         /\ pc = "validate" =>
              /\ idx <= k
              /\ (idx = k /\ outcome = "thrown") =>
                   error \in {"FILE_NOT_FOUND", "ALREADY_EXISTS"}

ImmediateCount ==
  Cardinality({k \in 1..Len(expandedActions) :
                 expandedActions[k].type \in {"delete", "duplicate"}})

\* C34: the entry of a rename or move is written with success TRUE in the
\* loop step that adds its rename to the batch, before any commit; a result
\* is returned only after an accepted commit, so in a returned result every
\* rename and move entry has success TRUE and its rename stands in the
\* accepted batch; only deletes and duplicates have failed entries, and
\* failedCount is at most their number.
C34_RenamesSucceed ==
  /\ pc \in {"build", "apply"} =>
       \A k \in 1..Len(result.operations) :
         result.operations[k].type \in {"rename", "move"} =>
           /\ result.operations[k].success
           /\ \E n \in 1..Len(edit) : edit[n] = RenameOpOf(expandedActions[k])
  /\ outcome = "returned" =>
       /\ log[Len(log)] = Call("applyEdit", Undef, "ok")
       /\ \A k \in 1..Len(expandedActions) :
            expandedActions[k].type \in {"rename", "move"} =>
              /\ result.operations[k].success
              /\ \E n \in 1..Len(edit) : edit[n] = RenameOpOf(expandedActions[k])
       /\ \A k \in 1..Len(result.operations) :
            ~result.operations[k].success =>
              result.operations[k].type \in {"delete", "duplicate"}
       /\ result.failedCount <= ImmediateCount

\* C34 witness: a returned result with a successful rename entry and a failed
\* delete entry
C34_Witness ==
  /\ outcome = "returned" /\ result.failedCount = 1
  /\ \E k \in 1..Len(result.operations) :
       result.operations[k].type = "rename" /\ result.operations[k].success

\* an input action that the Phase 1 loop passes over: a delete without a
\* path, an action of another type, or a wildcard that matches no file
Dropped(a) ==
  \/ ExpandKind(a) = "skip"
  \/ ExpandKind(a) \in {"deleteGlob", "opGlob"} /\ Matches(SearchPattern(a)) = {}

\* number of expanded actions an input action gives on the disk as it is
ExpandedCount(a) ==
  IF ExpandKind(a) \in {"deleteGlob", "opGlob"}
    THEN Cardinality(Matches(SearchPattern(a)))
  ELSE IF ExpandKind(a) \in {"deleteOne", "opOne"} THEN 1
  ELSE 0

RECURSIVE ExpandedTotal(_)
ExpandedTotal(s) ==
  IF s = <<>> THEN 0 ELSE ExpandedCount(Head(s)) + ExpandedTotal(Tail(s))

\* C35: in Phase 1, FILE_NOT_FOUND is thrown only after the whole batch was
\* gone through and nothing was expanded.  With the disk left alone, a call
\* that goes on to validation has as many expanded actions
\* as its input actions give one by one, a dropped action giving none, and at
\* least one; a returned result has one entry per expanded action, so fewer
\* entries than input actions when an action was dropped and the others are
\* single files.
C35_EmptyOnlyWhenAllEmpty ==
  /\ (pc = "expand" /\ outcome = "thrown" /\ error = "FILE_NOT_FOUND") =>
       idx > Len(actions) /\ expandedActions = <<>>
  /\ (pc \in {"validate", "collect"} /\ ext = 0) =>
       /\ Len(expandedActions) = ExpandedTotal(actions)
       /\ Len(expandedActions) > 0
       /\ \A k \in 1..Len(actions) : Dropped(actions[k]) => ExpandedCount(actions[k]) = 0
       /\ outcome = "pending" => error = NoError
  /\ outcome = "returned" =>
       /\ Len(result.operations) = Len(expandedActions)
       /\ (actions = <<Op("rename", AnyTs, AnyTs), Delete(logf("c"))>>) =>
            Len(result.operations) = 1 /\ result.operations[1].type = "delete"

\* C35 witness: a wildcard rename that matched nothing stands before a delete
\* in the batch; the call returned a result with the delete's entry only
C35_Witness ==
  /\ actions = <<Op("rename", AnyTs, AnyTs), Delete(logf("c"))>>
  /\ outcome = "returned"
  /\ Dropped(actions[1])
  /\ Len(result.operations) < Len(actions)
  /\ ext = 0

\* the stat answers performBulkOperations got
IsStat(e) == e.call = "stat"
BulkStats == SelectSeq(log, IsStat)

\* the two functions were given the same answers: the same answer of stat
\* for the same file, the same reference edits, the same answer to the commit
SameAnswers ==
  /\ \A m \in 1..Len(BulkStats) : \A n \in 1..Len(other.stats) :
       BulkStats[m].uri = other.stats[n].uri => BulkStats[m].out = other.stats[n].out
  /\ (Len(refs) = 1 /\ refs[1].stage = "settled" /\ other.collected) =>
       refs[1].value = other.referenceEdits
  /\ (ApplyCalls # {} /\ other.commit # "none") =>
       log[Len(log)].out = other.commit

SharedKinds ==
  {"UNTRUSTED", "NO_WORKSPACE", "FILE_NOT_FOUND", "ALREADY_EXISTS", "EDIT_REJECTED"}

\* C36: for one rename of a single file, when performBulkOperations and
\* renameFile have both ended after the same answers, either throws one of
\* UNTRUSTED, NO_WORKSPACE, FILE_NOT_FOUND, ALREADY_EXISTS, EDIT_REJECTED
\* exactly if the other throws the same, and one returns exactly if the other
\* does; whenever both reached the commit they handed over the same batch,
\* one rename with overwrite disabled followed by the same reference edits,
\* and on return totalReferencesUpdated equals referencesUpdated and both
\* disks are alike.  (A source whose stat is refused for permissions ends
\* renameFile with PERMISSION_DENIED and performBulkOperations with the stat
\* error itself, neither being one of the five kinds.)
C36_SameAsRenameFile ==
  (other.pc # "none" /\ outcome # "pending" /\ other.outcome # "pending" /\ SameAnswers) =>
    /\ \A kind \in SharedKinds :
         (outcome = "thrown" /\ error = kind)
           <=> (other.outcome = "thrown" /\ other.error = kind)
    /\ outcome = "returned" <=> other.outcome = "returned"
    /\ (ApplyCalls # {} /\ other.commit # "none") =>
         /\ edit = other.edit
         /\ edit[1] = [op |-> "rename", from |-> JoinPath(root, actions[1].source),
                       to |-> JoinPath(root, actions[1].target), overwrite |-> FALSE]
         /\ result.totalReferencesUpdated = other.referencesUpdated
    /\ outcome = "returned" =>
         /\ fs = other.disk
         /\ result.successCount = 1 /\ result.failedCount = 0
    /\ (outcome = "thrown" /\ error \notin SharedKinds) =>
         /\ error = "FS_ERROR"
         /\ other.error \in {"FS_ERROR", "PERMISSION_DENIED"}

\* C36 witness: both functions returned after the same answers, with a
\* reference edit in the batch each committed
C36_Witness ==
  /\ other.pc = "done" /\ outcome = "returned" /\ other.outcome = "returned"
  /\ SameAnswers
  /\ other.referencesUpdated > 0
  /\ Len(edit) > 1


====
